---------------------------- MODULE Spec2Model ----------------------------
(***************************************************************************)
(* Model of the test orchestration engine of cli.py: the result validator  *)
(* (validate_execution_result), the status query with its throttle retry   *)
(* (get_sfn_execution_details) and the execution monitor                   *)
(* (monitor_sfn_execution).                                                *)
(*                                                                         *)
(* Python values are represented as follows.                               *)
(*   dict            a function whose domain is the set of keys present    *)
(*   JSON value      a tagged record [t, v]: t is "num", "str" or "dict"   *)
(*                   and v the number, the string or the dict              *)
(*   error type      a string; Python's None is the reserved NoneStr       *)
(*   cause text      a sequence of characters, so that the substring test  *)
(*                   of the validator is computed and not assumed          *)
(*   output payload  [json, value]: whether json.loads accepts the text    *)
(*                   and, if so, the value it yields                       *)
(***************************************************************************)
EXTENDS Integers, Sequences, FiniteSets, TLC

VARIABLES
    pc,                  \* position of the modelled call
    scenario_config,     \* the scenario record handed to the validator
    execution_details,   \* the DescribeExecution response; empty: None
    is_pass,             \* the verdict returned to the caller
    validation_messages, \* the diagnostics returned with the verdict
    status,              \* the monitor's last observed status
    remote,              \* the execution as the remote service holds it
    depth,               \* nested get_sfn_execution_details frames of this poll
    calls,               \* DescribeExecution calls issued in this poll
    since_call,          \* time since the last DescribeExecution call, -1: none yet
    last_gap,            \* time between the last two calls, -1: fewer than two
    last_call_retry,     \* the last call was issued by the throttle retry
    poll_outcome,        \* how the last finished poll ended
    log,                 \* the error diagnostics logged so far
    analysis_enabled,    \* the --analyze-failures flag
    analysis_calls,      \* invocations of _invoke_ai_analysis
    polls,               \* polls of the monitor so far, counted up to MaxPolls
    validations,         \* calls of validate_execution_result by the monitor
    parsed_output,       \* the parsed output the normalization reads
    projections,         \* the results of the normalizations computed so far
    cache,               \* find_state_machine_arn.cache
    registry,            \* the state machines the remote service lists, in order
    resolutions,         \* calls of find_state_machine_arn so far
    list_calls,          \* listings (paginate traversals) issued so far
    last_resolution,     \* name, result and kind of the latest resolution
    settled,             \* per name, the result of its first found/not-found resolution
    failed_names,        \* names of which a resolution ended without a handle
    parallel,            \* the --parallel flag
    wait,                \* the --wait/--no-wait flag
    root_exists,         \* the directory of TEST_SUITES_DIR exists
    suite_dirs,          \* per suite name, its directory under the root
    suites,              \* the suites the run goes through, in order
    suite_index,         \* suites the loop of run has gone through
    skipped_suites,      \* the counter of that name in run
    test_jobs,           \* the job list handed to _run_and_summarize_tests
    job_pc,              \* per job: queued, monitoring, returned, counted
    job_outcome,         \* per job: none, pass, fail, raise
    results,             \* the passed and failed counters
    start_calls,         \* per job, the StartExecution calls issued for it
    exit_status,         \* the exit status of the process, -1 while it runs
    run_end,             \* how the command ended: returned, sys_exit, uncaught
    cases_dir,           \* the file names in the case directory of a suite
    scenarios_to_run,    \* the names given with --scenario, in order
    scenarios_in_dir,    \* what the latest glob of the case directory yielded
    enumerated,          \* per enumeration so far, the scenario paths of its jobs
    returned_status,     \* what monitor_execution of run_tests.py returned
    total_tests,         \* the counter of that name in run_tests.py
    failed_tests,        \* the counter of that name in run_tests.py
    file_index,          \* test files of the current suite gone through
    named                \* suites were named on the command line of run_tests.py

validateVars == <<scenario_config, execution_details, is_pass, validation_messages>>
clockVars == <<since_call, last_gap, last_call_retry>>
monitorVars == <<status, remote, depth, calls, clockVars, poll_outcome, log,
                 analysis_enabled, analysis_calls, polls, validations>>
\* the variables of the other components, which the validator and the monitor
\* leave alone
resolveVars == <<cache, registry, resolutions, list_calls, last_resolution,
                 settled, failed_names>>
flagVars == <<parallel, wait>>
planVars == <<root_exists, suite_dirs, suites, suite_index, skipped_suites>>
jobVars == <<test_jobs, job_pc, job_outcome, results, start_calls>>
exitVars == <<exit_status, run_end>>
runVars == <<flagVars, planVars, jobVars, exitVars>>
\* the monitor's variables but the log, which every component writes
monitorQuiet == <<status, remote, depth, calls, clockVars, poll_outcome,
                  analysis_enabled, analysis_calls, polls, validations>>
normVars == <<parsed_output, projections>>
enumVars == <<cases_dir, scenarios_to_run, scenarios_in_dir, enumerated>>
legacyVars == <<returned_status, total_tests, failed_tests, file_index, named>>
otherVars == <<resolveVars, runVars, normVars, enumVars, legacyVars>>
vars == <<pc, validateVars, monitorVars, otherVars>>

---------------------------------------------------------------------------
(* Bounds of the model.                                                    *)

\* longest expected `Cause` substring of a scenario
MaxCauseLen == 2
\* longest cause text of a FAILED execution
MaxTextLen == 3
\* nested get_sfn_execution_details frames the interpreter's stack allows
\* (sys.getrecursionlimit() scaled down)
RecursionLimit == 3
\* longest time by which a time.sleep may overrun its argument
MaxJitter == 1
\* polls of one monitor that are told apart
MaxPolls == 3
\* state machines the remote service lists at most
MaxMachines == 2
\* resolutions of one run that are modelled
MaxResolutions == 3
\* jobs of the list handed to the dispatcher at most
MaxJobs == 3
\* suite directories one run goes through at most
MaxSuites == 2
\* times the normalization is computed over one output
MaxNormalizations == 2
\* names given with --scenario at most
MaxFilter == 2
\* times one case directory is enumerated
MaxEnumerations == 2
\* test files in one case directory of run_tests.py
MaxFiles == 2

\* line 206: time.sleep(3) between two polls
POLL_INTERVAL == 3
\* line 110: time.sleep(2) before the throttle retry
THROTTLE_DELAY == 2
\* time.sleep(3) in monitor_execution of run_tests.py
LEGACY_POLL_INTERVAL == 3

---------------------------------------------------------------------------
(* Python and JSON values.                                                 *)

NoneStr == "<None>"
EmptyDict == [k \in {} |-> 0]

Num(n) == [t |-> "num", v |-> n]
Str(s) == [t |-> "str", v |-> s]
Dict(f) == [t |-> "dict", v |-> f]

\* dict.get(key, default)
Get(d, key, default) == IF key \in DOMAIN d THEN d[key] ELSE default

\* the texts of at most n characters
CauseChars == {"q", "Q"}
Texts(n) == UNION {[1..k -> CauseChars] : k \in 0..n}

\* Python's `needle in hay` on strings
Contains(hay, needle) ==
    \E i \in 0..(Len(hay) - Len(needle)) :
        SubSeq(hay, i + 1, i + Len(needle)) = needle

\* a diagnostic line: the kind of the f-string and the values it formats
Msg(kind, p1, p2) == [kind |-> kind, p1 |-> p1, p2 |-> p2]

\* json.loads of an output payload
json_loads(text) == [ok |-> text.json, value |-> text.value]
JsonText(value) == [json |-> TRUE, value |-> value]
MalformedText == [json |-> FALSE, value |-> Num(0)]

\* no resolution was made yet: find_state_machine_arn has no cache attribute
NoResolution == [name |-> NoneStr, result |-> NoneStr, kind |-> "none", listed |-> FALSE]
ResolveIdle ==
    /\ cache = EmptyDict
    /\ registry = <<>>
    /\ resolutions = 0
    /\ list_calls = 0
    /\ last_resolution = NoResolution
    /\ settled = EmptyDict
    /\ failed_names = {}

\* the run command was not invoked
RunIdle ==
    /\ parallel = FALSE
    /\ wait = TRUE
    /\ root_exists = TRUE
    /\ suite_dirs = <<>>
    /\ suites = <<>>
    /\ suite_index = 0
    /\ skipped_suites = 0
    /\ test_jobs = <<>>
    /\ job_pc = <<>>
    /\ job_outcome = <<>>
    /\ results = [passed |-> 0, failed |-> 0]
    /\ start_calls = <<>>
    /\ exit_status = -1
    /\ run_end = "none"

\* no normalization was computed
NormIdle ==
    /\ parsed_output = Dict(EmptyDict)
    /\ projections = <<>>

\* no case directory was enumerated
EnumIdle ==
    /\ cases_dir = {}
    /\ scenarios_to_run = <<>>
    /\ scenarios_in_dir = <<>>
    /\ enumerated = <<>>

\* run_tests.py was not invoked
LegacyIdle ==
    /\ returned_status = NoneStr
    /\ total_tests = 0
    /\ failed_tests = 0
    /\ file_index = 0
    /\ named = FALSE

\* the components a specification does not exercise stay as constructed
OtherIdle == ResolveIdle /\ RunIdle /\ NormIdle /\ EnumIdle /\ LegacyIdle

---------------------------------------------------------------------------
(* validate_execution_result, cli.py 118-192.                              *)

Outcome(pass, messages) == [is_pass |-> pass, messages |-> messages]

\* line 130: the expected error type is given and differs from the actual one
ErrorTypeMismatch_caseless(expected_error_block, actual_error) ==
    LET expected == Get(expected_error_block, "Error", NoneStr)
        Lower(s) == IF s = "ValidationException" THEN "validationexception" ELSE s
    IN  /\ expected \notin {NoneStr, ""}
        /\ Lower(expected) # Lower(actual_error)
ErrorTypeMismatch(expected_error_block, actual_error) ==
    LET expected == Get(expected_error_block, "Error", NoneStr)
    IN  /\ expected \notin {NoneStr, ""}
        /\ expected # actual_error

\* line 136: the expected cause is given and is not found in the actual cause
CauseMismatch_equality(expected_error_block, actual_cause) ==
    /\ "Cause" \in DOMAIN expected_error_block
    /\ expected_error_block["Cause"] # <<>>
    /\ expected_error_block["Cause"] # actual_cause
CauseMismatch(expected_error_block, actual_cause) ==
    /\ "Cause" \in DOMAIN expected_error_block
    /\ expected_error_block["Cause"] # <<>>
    /\ ~Contains(actual_cause, expected_error_block["Cause"])

\* lines 124-141: the scenario declares an `error` block
ValidateErrorBlock(details, expected_error_block) ==
    LET final_status == Get(details, "status", NoneStr)
        actual_error == Get(details, "error", NoneStr)
        actual_cause == Get(details, "cause", <<>>)
    IN  IF final_status # "FAILED"
        THEN Outcome(FALSE, <<Msg("StatusMismatch", "FAILED", final_status)>>)
        ELSE IF ErrorTypeMismatch(expected_error_block, actual_error)
        THEN Outcome(FALSE, <<Msg("ErrorTypeMismatch",
                                  expected_error_block["Error"], actual_error)>>)
        ELSE IF CauseMismatch(expected_error_block, actual_cause)
        THEN Outcome(FALSE, <<Msg("CauseMismatch",
                                  expected_error_block["Cause"], actual_cause)>>)
        ELSE Outcome(TRUE, <<Msg("FailedAsExpected", "", "")>>)

\* lines 160-163: logical key -> path into the actual output, in dict order
key_mappings ==
    << [key |-> "statusCode", path |-> <<"apiResult", "StatusCode">>],
       [key |-> "statusInDb", path |-> <<"verificationData", "Item", "status", "S">>] >>

\* lines 167-175: walk `path` down from current_level
RECURSIVE ResolvePath_noBreak(_, _)
ResolvePath_noBreak(current_level, path) ==
    IF path = <<>>
    THEN [found |-> TRUE, value |-> current_level]
    ELSE IF current_level.t = "dict" /\ Head(path) \in DOMAIN current_level.v
    THEN ResolvePath_noBreak(current_level.v[Head(path)], Tail(path))
    ELSE ResolvePath_noBreak(current_level, Tail(path))
RECURSIVE ResolvePath(_, _)
ResolvePath(current_level, path) ==
    IF path = <<>>
    THEN [found |-> TRUE, value |-> current_level]
    ELSE IF current_level.t = "dict" /\ Head(path) \in DOMAIN current_level.v
    THEN ResolvePath(current_level.v[Head(path)], Tail(path))
    ELSE [found |-> FALSE, value |-> current_level]

\* lines 157-177: the normalized projection of actual_output onto the mapped keys
\* of expected_output, and the diagnostics of the paths that do not resolve
RECURSIVE NormalizeFrom(_, _, _)
NormalizeFrom(i, actual_output, expected_output) ==
    IF i > Len(key_mappings)
    THEN [validation_results |-> EmptyDict, validation_errors |-> <<>>]
    ELSE LET rest == NormalizeFrom(i + 1, actual_output, expected_output)
             key == key_mappings[i].key
             path == key_mappings[i].path
             r == ResolvePath(actual_output, path)
         IN  IF key \notin DOMAIN expected_output.v
             THEN rest
             ELSE IF r.found
             THEN [rest EXCEPT !.validation_results = (key :> r.value) @@ @]
             ELSE [rest EXCEPT !.validation_errors = <<Msg("PathNotFound", path, "")>> \o @]
Normalize(actual_output, expected_output) ==
    NormalizeFrom(1, actual_output, expected_output)

\* lines 149-190: the scenario declares an `expected` block and the run SUCCEEDED
ValidateExpected(details, expected_output) ==
    LET parsed == json_loads(Get(details, "output", JsonText(Dict(EmptyDict))))
        n == Normalize(parsed.value, expected_output)
    IN  IF ~parsed.ok
        THEN Outcome(FALSE, <<Msg("OutputNotJson", "", "")>>)
        ELSE IF n.validation_errors # <<>>
        THEN Outcome(FALSE, n.validation_errors \o <<Msg("SeeLogFile", "", "")>>)
        ELSE IF Dict(n.validation_results) # expected_output
        THEN Outcome(FALSE, << Msg("NormalizedMismatch", "", ""),
                               Msg("Esperado", expected_output, ""),
                               Msg("Recebido", Dict(n.validation_results), "") >>)
        ELSE Outcome(TRUE, <<Msg("OutputAsExpected", "", "")>>)

\* line 143: the gate of the success path
StatusIsSuccess_notFailed(final_status) == final_status # "FAILED"
StatusIsSuccess(final_status) == final_status = "SUCCEEDED"

\* lines 143-147: the diagnostics of a run that did not succeed
NotSucceeded(details) ==
    Outcome(FALSE, << Msg("StatusMismatch", "SUCCEEDED", Get(details, "status", NoneStr)),
                      Msg("ErrorInfo", Get(details, "error", NoneStr),
                          IF "cause" \in DOMAIN details THEN {details["cause"]} ELSE {}) >>)

validate_expected_first(details, scenario) ==
    IF "expected" \in DOMAIN scenario /\ Get(details, "status", NoneStr) = "SUCCEEDED"
    THEN ValidateExpected(details, scenario["expected"])
    ELSE IF "error" \in DOMAIN scenario
    THEN ValidateErrorBlock(details, scenario["error"])
    ELSE IF ~StatusIsSuccess(Get(details, "status", NoneStr))
    THEN NotSucceeded(details)
    ELSE Outcome(TRUE, <<>>)
validate_execution_result(details, scenario) ==
    IF "error" \in DOMAIN scenario
    THEN ValidateErrorBlock(details, scenario["error"])
    ELSE IF ~StatusIsSuccess(Get(details, "status", NoneStr))
    THEN NotSucceeded(details)
    ELSE IF "expected" \in DOMAIN scenario
    THEN ValidateExpected(details, scenario["expected"])
    ELSE Outcome(TRUE, <<>>)

---------------------------------------------------------------------------
(* The inputs of the validator.                                            *)

ErrorTypes == {"ValidationException", "validationexception", "OtherException"}

\* the `error` block of a scenario: {Error?, Cause?}
ErrorBlocks ==
    { e @@ c : e \in {EmptyDict} \cup {"Error" :> x : x \in ErrorTypes \cup {""}},
               c \in {EmptyDict} \cup {"Cause" :> x : x \in Texts(MaxCauseLen)} }

ApiResults ==
    { Num(200), Dict(EmptyDict),
      Dict("StatusCode" :> Num(200)), Dict("StatusCode" :> Num(500)) }
DbItem(s) == Dict("Item" :> Dict("status" :> s))
VerificationData ==
    { DbItem(Str("PAID")), DbItem(Dict("S" :> Str("PAID"))),
      DbItem(Dict("S" :> Str("PENDING"))) }
OtherFields ==
    { "message" :> Str("ok"), "data" :> Dict("id" :> Num(1)),
      "data" :> Dict("id" :> Num(2)), "statusCode" :> Num(200) }

\* what json.loads yields for the output of a SUCCEEDED execution
ActualOutputs ==
    { Dict(a @@ d @@ o) :
        a \in {EmptyDict} \cup {"apiResult" :> x : x \in ApiResults},
        d \in {EmptyDict} \cup {"verificationData" :> x : x \in VerificationData},
        o \in {EmptyDict} \cup OtherFields }
    \cup {Num(200)}

\* the `expected` block of a scenario
ExpectedBlocks ==
    { Dict(EmptyDict),
      Dict("statusCode" :> Num(200)),
      Dict("statusInDb" :> Str("PAID")),
      Dict(("statusCode" :> Num(200)) @@ ("statusInDb" :> Str("PAID"))),
      Dict("message" :> Str("ok")),
      Dict("data" :> Dict("id" :> Num(1))),
      Dict(("statusCode" :> Num(200)) @@ ("message" :> Str("ok"))),
      Dict("apiResult" :> Dict("StatusCode" :> Num(200))) }

ScenarioConfigs ==
    { ("input" :> Dict(EmptyDict)) @@ e @@ x :
        e \in {EmptyDict} \cup {"error" :> b : b \in ErrorBlocks},
        x \in {EmptyDict} \cup {"expected" :> b : b \in ExpectedBlocks} }

\* DescribeExecution responses: output on SUCCEEDED, error and cause on FAILED
OtherStatuses == {"TIMED_OUT", "ABORTED", "RUNNING", "PENDING_REDRIVE"}
ExecutionRecords ==
    { ("status" :> "FAILED") @@ e @@ c :
        e \in {EmptyDict} \cup {"error" :> x : x \in ErrorTypes},
        c \in {EmptyDict} \cup {"cause" :> x : x \in Texts(MaxTextLen)} }
    \cup { ("status" :> "SUCCEEDED") @@ o :
        o \in {EmptyDict} \cup {"output" :> JsonText(x) : x \in ActualOutputs}
              \cup {"output" :> MalformedText} }
    \cup { "status" :> s : s \in OtherStatuses }

---------------------------------------------------------------------------
(* get_sfn_execution_details, cli.py 103-116, and monitor_sfn_execution,   *)
(* cli.py 194-256.                                                         *)

\* line 200: execution_details = None; None and the empty response are both falsy
NoDetails == EmptyDict

Running == "status" :> "RUNNING"
TerminalStatuses == {"SUCCEEDED", "FAILED", "TIMED_OUT", "ABORTED"}

\* the records an execution can end with
TerminalRecords ==
    { ("status" :> "SUCCEEDED")
          @@ ("output" :> JsonText(Dict("apiResult" :> Dict("StatusCode" :> Num(200))))),
      ("status" :> "SUCCEEDED")
          @@ ("output" :> JsonText(Dict("apiResult" :> Dict("StatusCode" :> Num(500))))),
      ("status" :> "FAILED") @@ ("error" :> "ValidationException")
          @@ ("cause" :> <<"Q", "q">>),
      ("status" :> "FAILED") @@ ("error" :> "OtherException") @@ ("cause" :> <<"q">>),
      "status" :> "TIMED_OUT",
      "status" :> "ABORTED" }

\* the scenarios handed to the monitor
MonitorScenarios ==
    { "input" :> Dict(EmptyDict),
      ("input" :> Dict(EmptyDict))
          @@ ("error" :> [Error |-> "ValidationException", Cause |-> <<"q">>]),
      ("input" :> Dict(EmptyDict)) @@ ("expected" :> Dict("statusCode" :> Num(200))),
      ("input" :> Dict(EmptyDict))
          @@ ("error" :> [Error |-> "ValidationException", Cause |-> <<"q">>])
          @@ ("expected" :> Dict("statusCode" :> Num(200))) }

\* the monitor's variables while no monitor runs
MonitorIdle ==
    /\ status = "RUNNING"
    /\ remote = Running
    /\ depth = 0
    /\ calls = 0
    /\ since_call = -1
    /\ last_gap = -1
    /\ last_call_retry = FALSE
    /\ poll_outcome = "none"
    /\ log = {}
    /\ analysis_enabled = FALSE
    /\ analysis_calls = 0
    /\ polls = 0
    /\ validations = 0

\* lines 196-200: the monitor starts on an execution that was just started
InitMonitor ==
    /\ pc = "sleep"
    /\ scenario_config \in MonitorScenarios
    /\ execution_details = NoDetails
    /\ is_pass = FALSE
    /\ validation_messages = <<>>
    /\ status = "RUNNING"
    /\ remote = Running
    /\ depth = 0
    /\ calls = 0
    /\ since_call = -1
    /\ last_gap = -1
    /\ last_call_retry = FALSE
    /\ poll_outcome = "none"
    /\ log = {}
    /\ analysis_enabled \in BOOLEAN
    /\ analysis_calls = 0
    /\ polls = 0
    /\ validations = 0
    /\ OtherIdle

\* time passes: d time units since the last call
Elapse(d) == since_call' = IF since_call = -1 THEN -1 ELSE since_call + d

\* line 106: a DescribeExecution call is issued, `after` time units before the
\* next step of the monitor
IssueCall(after) ==
    /\ calls' = calls + 1
    /\ last_gap' = since_call
    /\ last_call_retry' = (depth > 0)
    /\ since_call' = after

\* the remote execution ends; the monitor does not act
RemoteTerminates ==
    /\ pc \in {"sleep", "describe"}
    /\ remote = Running
    /\ remote' \in TerminalRecords
    /\ UNCHANGED <<pc, validateVars, status, depth, calls, clockVars, poll_outcome,
                   log, analysis_enabled, analysis_calls, polls,
                   validations, otherVars>>

\* lines 202-207: the loop's test, time.sleep(3) and the call of
\* get_sfn_execution_details
MonitorSleep_noSleep ==
    /\ pc = "sleep"
    /\ status = "RUNNING"
    /\ Elapse(0)
    /\ depth' = 0
    /\ calls' = 0
    /\ polls' = IF polls < MaxPolls THEN polls + 1 ELSE polls
    /\ pc' = "describe"
    /\ UNCHANGED <<validateVars, status, remote, last_gap, last_call_retry,
                   poll_outcome, log, analysis_enabled, analysis_calls, validations,
                   otherVars>>
MonitorSleep_deadline ==
    /\ pc = "sleep"
    /\ status = "RUNNING"
    /\ \E jitter \in 0..MaxJitter : Elapse(POLL_INTERVAL + jitter)
    /\ depth' = 0
    /\ calls' = 0
    /\ polls' = IF polls < MaxPolls THEN polls + 1 ELSE polls
    /\ pc' = IF polls < MaxPolls - 1 THEN "describe" ELSE "report"
    /\ status' = IF polls < MaxPolls - 1 THEN status ELSE "TIMED_OUT"
    /\ UNCHANGED <<validateVars, remote, last_gap, last_call_retry,
                   poll_outcome, log, analysis_enabled, analysis_calls, validations,
                   otherVars>>
MonitorSleep ==
    /\ pc = "sleep"
    /\ status = "RUNNING"
    /\ \E jitter \in 0..MaxJitter : Elapse(POLL_INTERVAL + jitter)
    /\ depth' = 0
    /\ calls' = 0
    /\ polls' = IF polls < MaxPolls THEN polls + 1 ELSE polls
    /\ pc' = "describe"
    /\ UNCHANGED <<validateVars, status, remote, last_gap, last_call_retry,
                   poll_outcome, log, analysis_enabled, analysis_calls, validations,
                   otherVars>>

\* lines 106-107 and 208-209: describe_execution answers; every frame returns the
\* response and the monitor takes its status
DescribeReturns ==
    /\ pc = "describe"
    /\ depth < RecursionLimit
    /\ IssueCall(0)
    /\ execution_details' = remote
    /\ status' = remote["status"]
    /\ poll_outcome' = "answered"
    /\ pc' = IF remote["status"] = "RUNNING" THEN "sleep" ELSE "report"
    /\ UNCHANGED <<scenario_config, is_pass, validation_messages, remote, depth, log,
                   analysis_enabled, analysis_calls, polls,
                   validations, otherVars>>

\* lines 108-111: describe_execution raises ThrottlingException; after
\* time.sleep(2) the function calls itself
DescribeThrottled ==
    /\ pc = "describe"
    /\ depth < RecursionLimit
    /\ \E jitter \in 0..MaxJitter : IssueCall(THROTTLE_DELAY + jitter)
    /\ depth' = depth + 1
    /\ UNCHANGED <<pc, validateVars, status, remote, poll_outcome, log,
                   analysis_enabled, analysis_calls, polls,
                   validations, otherVars>>

\* lines 114-116 and 210-212 in the innermost frame the stack allows: the call
\* raises RecursionError before a request is sent, the frame logs it and returns
\* None, every frame below returns None, and the monitor leaves its loop
DescribeStackExhausted ==
    /\ pc = "describe"
    /\ depth = RecursionLimit
    /\ execution_details' = NoDetails
    /\ status' = "UNKNOWN"
    /\ poll_outcome' = "throttled"
    /\ log' = log \cup {"UnexpectedDescribeError"}
    /\ pc' = "report"
    /\ UNCHANGED <<scenario_config, is_pass, validation_messages, remote, depth, calls,
                   clockVars, analysis_enabled, analysis_calls, polls,
                   validations, otherVars>>

\* lines 108, 112-116 and 210-212: describe_execution raises another ClientError
\* or another exception; the frame logs it and returns None, and the monitor
\* sets UNKNOWN and leaves its loop
DescribeFails_keepsPolling ==
    /\ pc = "describe"
    /\ depth < RecursionLimit
    /\ IssueCall(0)
    /\ execution_details' = NoDetails
    /\ poll_outcome' = "failed"
    /\ \E kind \in {"AwsDescribeError", "UnexpectedDescribeError"} :
           log' = log \cup {kind}
    /\ pc' = "sleep"
    /\ UNCHANGED <<scenario_config, is_pass, validation_messages, status, remote, depth,
                   analysis_enabled, analysis_calls, polls,
                   validations, otherVars>>
DescribeFails_statusKept ==
    /\ pc = "describe"
    /\ depth < RecursionLimit
    /\ IssueCall(0)
    /\ execution_details' = NoDetails
    /\ poll_outcome' = "failed"
    /\ \E kind \in {"AwsDescribeError", "UnexpectedDescribeError"} :
           log' = log \cup {kind}
    /\ pc' = "report"
    /\ UNCHANGED <<scenario_config, is_pass, validation_messages, status, remote, depth,
                   analysis_enabled, analysis_calls, polls,
                   validations, otherVars>>
DescribeFails ==
    /\ pc = "describe"
    /\ depth < RecursionLimit
    /\ IssueCall(0)
    /\ execution_details' = NoDetails
    /\ status' = "UNKNOWN"
    /\ poll_outcome' = "failed"
    /\ \E kind \in {"AwsDescribeError", "UnexpectedDescribeError"} :
           log' = log \cup {kind}
    /\ pc' = "report"
    /\ UNCHANGED <<scenario_config, is_pass, validation_messages, remote, depth,
                   analysis_enabled, analysis_calls, polls,
                   validations, otherVars>>

MonitorReport_analysisUnlessSucceeded ==
    /\ pc = "report"
    /\ IF execution_details = NoDetails
       THEN /\ is_pass' = FALSE
            /\ log' = log \cup {"NoFinalDetails"}
            /\ UNCHANGED <<validation_messages, analysis_calls, validations>>
       ELSE LET outcome == validate_execution_result(execution_details, scenario_config)
            IN  /\ is_pass' = outcome.is_pass
                /\ validation_messages' = outcome.messages
                /\ analysis_calls' =
                       IF Get(execution_details, "status", "UNKNOWN") # "SUCCEEDED"
                          /\ analysis_enabled
                       THEN analysis_calls + 1 ELSE analysis_calls
                /\ validations' = validations + 1
                /\ UNCHANGED log
    /\ pc' = "returned"
    /\ UNCHANGED <<scenario_config, execution_details, status, remote, depth, calls,
                   clockVars, poll_outcome, analysis_enabled, polls,
                   otherVars>>
\* lines 214-256: after the loop; without details the verdict is False, otherwise
\* the failure analysis runs for a FAILED execution when enabled and the
\* validator decides
MonitorReport ==
    /\ pc = "report"
    /\ IF execution_details = NoDetails
       THEN /\ is_pass' = FALSE
            /\ log' = log \cup {"NoFinalDetails"}
            /\ UNCHANGED <<validation_messages, analysis_calls, validations>>
       ELSE LET outcome == validate_execution_result(execution_details, scenario_config)
            IN  /\ is_pass' = outcome.is_pass
                /\ validation_messages' = outcome.messages
                /\ analysis_calls' =
                       IF Get(execution_details, "status", "UNKNOWN") = "FAILED"
                          /\ analysis_enabled
                       THEN analysis_calls + 1 ELSE analysis_calls
                /\ validations' = validations + 1
                /\ UNCHANGED log
    /\ pc' = "returned"
    /\ UNCHANGED <<scenario_config, execution_details, status, remote, depth, calls,
                   clockVars, poll_outcome, analysis_enabled, polls,
                   otherVars>>

NextMonitor ==
    \/ RemoteTerminates
    \/ MonitorSleep
    \/ DescribeReturns
    \/ DescribeThrottled
    \/ DescribeStackExhausted
    \/ DescribeFails
    \/ MonitorReport

SpecMonitor == InitMonitor /\ [][NextMonitor]_vars

---------------------------------------------------------------------------
(* The validator applied to every scenario and every execution record.     *)

InitValidate ==
    /\ pc = "validate"
    /\ scenario_config \in ScenarioConfigs
    /\ execution_details \in ExecutionRecords
    /\ is_pass = FALSE
    /\ validation_messages = <<>>
    /\ MonitorIdle
    /\ OtherIdle

Validate ==
    /\ pc = "validate"
    /\ LET outcome == validate_execution_result(execution_details, scenario_config)
       IN  /\ is_pass' = outcome.is_pass
           /\ validation_messages' = outcome.messages
    /\ pc' = "validated"
    /\ UNCHANGED <<scenario_config, execution_details, monitorVars, otherVars>>

NextValidate == Validate

SpecValidate == InitValidate /\ [][NextValidate]_vars

---------------------------------------------------------------------------
(* Properties of the validator, checked under SpecValidate.                *)

Validated == pc = "validated"
HasError == "error" \in DOMAIN scenario_config
HasExpected == "expected" \in DOMAIN scenario_config
HasMsg(kind) == \E i \in DOMAIN validation_messages : validation_messages[i].kind = kind
HasMsgOf(kind, p1) ==
    \E i \in DOMAIN validation_messages :
        validation_messages[i].kind = kind /\ validation_messages[i].p1 = p1

\* the expected cause of the scenario is a non-empty string
CauseGiven ==
    /\ HasError
    /\ "Cause" \in DOMAIN scenario_config["error"]
    /\ scenario_config["error"]["Cause"] # <<>>
\* the expected error type of the scenario is a non-empty string
ErrorGiven ==
    /\ HasError
    /\ "Error" \in DOMAIN scenario_config["error"]
    /\ scenario_config["error"]["Error"] # ""
ActualError == Get(execution_details, "error", NoneStr)
ActualCause == Get(execution_details, "cause", <<>>)
CauseContained == Contains(ActualCause, scenario_config["error"]["Cause"])

\* the scenario d without its block `key`
Without(d, key) == [k \in DOMAIN d \ {key} |-> d[k]]

\* the mapping table as the specification states it
MappedPath ==
    ("statusCode" :> <<"apiResult", "StatusCode">>)
    @@ ("statusInDb" :> <<"verificationData", "Item", "status", "S">>)
\* the values found at `path` in `value`: one, or none when the path does not resolve
RECURSIVE ValuesAt(_, _)
ValuesAt(value, path) ==
    IF path = <<>> THEN {value}
    ELSE IF value.t = "dict" /\ Head(path) \in DOMAIN value.v
    THEN ValuesAt(value.v[Head(path)], Tail(path))
    ELSE {}
\* the run SUCCEEDED with an output that parses, and the scenario has an
\* `expected` block and no `error` block
OutputCompared ==
    /\ Validated /\ HasExpected /\ ~HasError
    /\ execution_details["status"] = "SUCCEEDED"
    /\ Get(execution_details, "output", JsonText(Dict(EmptyDict))).json
ParsedOutput == Get(execution_details, "output", JsonText(Dict(EmptyDict))).value
ExpectedKeys == DOMAIN scenario_config["expected"].v
Resolved(key) == ValuesAt(ParsedOutput, MappedPath[key])
\* the normalized projection when every mapped key resolves
Projection == Dict([k \in ExpectedKeys |-> CHOOSE x \in Resolved(k) : TRUE])

\* C1: a scenario with neither an `expected` nor an `error` block passes if and
\* only if the execution status is SUCCEEDED, whatever the status is.
C1_PassIffSucceeded ==
    (Validated /\ ~HasError /\ ~HasExpected)
        => (is_pass <=> execution_details["status"] = "SUCCEEDED")
C1_Witness ==
    /\ Validated /\ ~HasError /\ ~HasExpected
    /\ execution_details["status"] = "SUCCEEDED" /\ is_pass

\* C2 as stated: with a non-empty expected Cause the verdict is pass if and only
\* if the status is FAILED and the actual cause contains the Cause substring.
C2_Original ==
    (Validated /\ CauseGiven)
        => (is_pass <=> (execution_details["status"] = "FAILED" /\ CauseContained))
\* C2 as amended: with a non-empty expected Cause the verdict is pass if and only
\* if the status is FAILED, the actual cause contains the Cause substring, and the
\* expected Error, when it is a non-empty string, equals the actual error type.
C2_PassIffFailedCauseAndType ==
    (Validated /\ CauseGiven)
        => (is_pass <=> /\ execution_details["status"] = "FAILED"
                        /\ CauseContained
                        /\ (ErrorGiven => scenario_config["error"]["Error"] = ActualError))
C2_Witness ==
    /\ Validated /\ CauseGiven /\ is_pass
    /\ execution_details["status"] = "FAILED"
    /\ ActualCause # scenario_config["error"]["Cause"]

\* C3: with an `expected` block none of whose keys is in the mapping table, a
\* SUCCEEDED run passes if and only if its parsed output is deep-equal to the
\* expected block.
C3_DeepEqualWithoutNormalization ==
    (OutputCompared /\ ExpectedKeys \cap DOMAIN MappedPath = {})
        => (is_pass <=> ParsedOutput = scenario_config["expected"])

\* C4 as stated: with an `expected` block of mapped keys and a SUCCEEDED run the
\* verdict is pass if and only if every key's path resolves to the expected value,
\* and whenever a resolved value differs the verdict is fail and the diagnostics
\* hold the expected block and the received projection.
C4_Original ==
    (OutputCompared /\ ExpectedKeys \subseteq DOMAIN MappedPath)
        => /\ is_pass <=> \A k \in ExpectedKeys :
                              Resolved(k) = {scenario_config["expected"].v[k]}
           /\ (\E k \in ExpectedKeys :
                   /\ Resolved(k) # {}
                   /\ Resolved(k) # {scenario_config["expected"].v[k]})
                => /\ ~is_pass
                   /\ HasMsgOf("Esperado", scenario_config["expected"])
                   /\ HasMsg("Recebido")
\* C4 as amended: with an `expected` block of mapped keys and a SUCCEEDED run whose
\* output parses, the verdict is pass if and only if every key's path resolves to
\* the expected value; when every path resolves and a resolved value differs, the
\* verdict is fail and the diagnostics hold the expected block and the received
\* projection.
C4_NormalizedComparison ==
    (OutputCompared /\ ExpectedKeys \subseteq DOMAIN MappedPath)
        => /\ is_pass <=> \A k \in ExpectedKeys :
                              Resolved(k) = {scenario_config["expected"].v[k]}
           /\ ( /\ \A k \in ExpectedKeys : Resolved(k) # {}
                /\ \E k \in ExpectedKeys :
                       Resolved(k) # {scenario_config["expected"].v[k]} )
                => /\ ~is_pass
                   /\ HasMsgOf("Esperado", scenario_config["expected"])
                   /\ HasMsgOf("Recebido", Projection)
C4_Witness ==
    /\ OutputCompared /\ ExpectedKeys = {"statusCode"}
    /\ Resolved("statusCode") = {Num(500)}
    /\ ~is_pass /\ HasMsg("Esperado") /\ HasMsg("Recebido")

\* C5: with a non-empty expected Error and a FAILED run, an actual error type
\* that is not exactly the expected one fails with an error-type-mismatch
\* diagnostic even if the cause matches; an equal error type with the expected
\* cause contained passes.
C5_ErrorTypeExact ==
    (Validated /\ ErrorGiven /\ execution_details["status"] = "FAILED")
        => /\ ActualError # scenario_config["error"]["Error"]
                => /\ ~is_pass
                   /\ HasMsgOf("ErrorTypeMismatch", scenario_config["error"]["Error"])
           /\ ( /\ ActualError = scenario_config["error"]["Error"]
                /\ CauseGiven => CauseContained )
                => is_pass
C5_Witness ==
    /\ Validated /\ ErrorGiven /\ CauseGiven
    /\ execution_details["status"] = "FAILED"
    /\ ActualError \notin {NoneStr, scenario_config["error"]["Error"]}
    /\ CauseContained
    /\ ~is_pass /\ HasMsg("ErrorTypeMismatch")

\* C6: with both an `error` and an `expected` block the error-block check alone
\* decides: the outcome is the one of the same scenario without its `expected`
\* block, and a run that did not end FAILED fails with the status-mismatch
\* diagnostic only.
C6_ErrorBlockDecides ==
    (Validated /\ HasError /\ HasExpected)
        => /\ Outcome(is_pass, validation_messages)
                = validate_execution_result(execution_details,
                                            Without(scenario_config, "expected"))
           /\ execution_details["status"] # "FAILED"
                => /\ ~is_pass
                   /\ validation_messages
                        = <<Msg("StatusMismatch", "FAILED", execution_details["status"])>>
C6_Witness ==
    /\ Validated /\ HasError /\ HasExpected
    /\ execution_details["status"] = "SUCCEEDED"
    /\ validate_execution_result(execution_details,
                                 Without(scenario_config, "error")).is_pass
    /\ ~is_pass /\ HasMsg("StatusMismatch")

---------------------------------------------------------------------------
(* Properties of the monitor, checked under SpecMonitor.                   *)

\* C7: one poll of the monitor issues at most two DescribeExecution calls,
\* however many rate-limiting errors the remote service returns in a row.
C7_AtMostTwoCallsPerPoll == calls <= 2

\* C8: a poll that ends because of rate limiting fails that poll only: the error
\* is logged and the monitor is still in its polling loop with status RUNNING,
\* about to query the status again.
C8_RateLimitFailureKeepsPolling ==
    poll_outcome = "throttled"
        => /\ log # {}
           /\ pc \in {"sleep", "describe"}
           /\ status = "RUNNING"

C10_Original == last_gap # -1 => last_gap >= 3
\* C10 as amended: any two consecutive DescribeExecution calls of the monitor are
\* at least 3 time units apart, except that a throttle retry follows the
\* throttled call after at least 2 time units.
C10_PollingRate ==
    last_gap # -1 => IF last_call_retry THEN last_gap >= 2 ELSE last_gap >= 3
C10_Witness ==
    /\ last_gap = 3
    /\ ~last_call_retry
    /\ pc = "sleep"
    /\ calls = 1

\* C11: while every status query is answered with RUNNING the monitor stays in
\* its loop, whatever the number of polls and the time elapsed: it is past the loop
\* only after a failed status query or an answer other than RUNNING, and in the
\* loop with status RUNNING the next poll is always possible.
C11_NoClientTimeout ==
    /\ pc \in {"report", "returned"}
         => \/ poll_outcome \in {"failed", "throttled"}
            \/ poll_outcome = "answered" /\ execution_details["status"] # "RUNNING"
    /\ (pc = "sleep" /\ status = "RUNNING") => ENABLED MonitorSleep
    /\ (poll_outcome = "answered" /\ execution_details["status"] = "RUNNING")
         => pc \in {"sleep", "describe"} /\ status = "RUNNING"
C11_Witness ==
    /\ polls = MaxPolls
    /\ pc = "sleep"
    /\ status = "RUNNING"
    /\ poll_outcome = "answered"
    /\ ENABLED MonitorSleep

---------------------------------------------------------------------------
(* find_state_machine_arn, cli.py 74-101.                                  *)

\* suite names differing only in case, and the handles the service gives out
Names == {"orders", "Orders"}
Arns == {"arn:1", "arn:2"}
Machines == [name : Names, stateMachineArn : Arns]
Registries == UNION {[1..k -> Machines] : k \in 0..MaxMachines}

\* how the listing goes: it runs to the end, or a page request fails after
\* `after` machines were delivered, with a ClientError or with another exception
NoFault == [kind |-> "none", after |-> 0]
ListFaults(reg) ==
    {NoFault} \cup [kind : {"ClientError", "Exception"}, after : 0..Len(reg)]

FirstMatch_caseless(reg, limit, name) ==
    LET Lower(n) == IF n = "Orders" THEN "orders" ELSE n
        hits == {i \in 1..limit : Lower(reg[i].name) = Lower(name)}
    IN  IF hits = {} THEN 0 ELSE CHOOSE i \in hits : \A j \in hits : i <= j
\* lines 88-93: the first listed machine of that exact name, 0 when none
FirstMatch(reg, limit, name) ==
    LET hits == {i \in 1..limit : reg[i].name = name}
    IN  IF hits = {} THEN 0 ELSE CHOOSE i \in hits : \A j \in hits : i <= j

Store(c, name, value) == [k \in DOMAIN c \cup {name} |-> IF k = name THEN value ELSE c[k]]

Resolution(result, c, listed, kind) ==
    [result |-> result, cache |-> c, listed |-> listed, kind |-> kind]

find_state_machine_arn_noNegativeCache(c, name, reg, fault) ==
    IF name \in DOMAIN c
    THEN Resolution(c[name], c, FALSE, "cached")
    ELSE LET limit == IF fault.kind = "none" THEN Len(reg) ELSE fault.after
             hit == FirstMatch(reg, limit, name)
         IN  IF hit # 0
             THEN Resolution(reg[hit].stateMachineArn,
                             Store(c, name, reg[hit].stateMachineArn), TRUE, "found")
             ELSE IF fault.kind = "none"
             THEN Resolution(NoneStr, c, TRUE, "not_found")
             ELSE IF fault.kind = "ClientError"
             THEN Resolution(NoneStr, c, TRUE, "client_error")
             ELSE Resolution(NoneStr, c, TRUE, "raised")

\* the result, the cache afterwards, whether the listing was issued, and how the
\* call ended; "raised": an exception other than ClientError leaves the function
find_state_machine_arn(c, name, reg, fault) ==
    IF name \in DOMAIN c
    THEN Resolution(c[name], c, FALSE, "cached")
    ELSE LET limit == IF fault.kind = "none" THEN Len(reg) ELSE fault.after
             hit == FirstMatch(reg, limit, name)
         IN  IF hit # 0
             THEN Resolution(reg[hit].stateMachineArn,
                             Store(c, name, reg[hit].stateMachineArn), TRUE, "found")
             ELSE IF fault.kind = "none"
             THEN Resolution(NoneStr, Store(c, name, NoneStr), TRUE, "not_found")
             ELSE IF fault.kind = "ClientError"
             THEN Resolution(NoneStr, c, TRUE, "client_error")
             ELSE Resolution(NoneStr, c, TRUE, "raised")

ValidateIdle ==
    /\ scenario_config = [input |-> Dict(EmptyDict)]
    /\ execution_details = NoDetails
    /\ is_pass = FALSE
    /\ validation_messages = <<>>

InitResolve ==
    /\ pc = "resolve"
    /\ ValidateIdle
    /\ MonitorIdle
    /\ NormIdle
    /\ EnumIdle
    /\ LegacyIdle
    /\ cache = EmptyDict
    /\ registry \in Registries
    /\ resolutions = 0
    /\ list_calls = 0
    /\ last_resolution = NoResolution
    /\ settled = EmptyDict
    /\ failed_names = {}
    /\ RunIdle

\* the effect of one call of find_state_machine_arn on the resolver's state
Resolving(name, fault) ==
    LET r == find_state_machine_arn(cache, name, registry, fault)
    IN  /\ cache' = r.cache
        /\ list_calls' = IF r.listed THEN list_calls + 1 ELSE list_calls
        /\ last_resolution' = [name |-> name, result |-> r.result,
                               kind |-> r.kind, listed |-> r.listed]
        /\ settled' = IF r.kind \in {"found", "not_found"} /\ name \notin DOMAIN settled
                      THEN Store(settled, name, r.result)
                      ELSE settled
        /\ failed_names' = IF r.result = NoneStr
                           THEN failed_names \cup {name}
                           ELSE failed_names
        /\ resolutions' = resolutions + 1
        /\ UNCHANGED registry

\* one call of find_state_machine_arn
Resolve ==
    /\ pc = "resolve"
    /\ resolutions < MaxResolutions
    /\ \E name \in Names, fault \in ListFaults(registry) : Resolving(name, fault)
    /\ UNCHANGED <<pc, validateVars, monitorVars, runVars, normVars, enumVars, legacyVars>>

\* state machines are deployed and removed while the run goes on
RegistryChanges ==
    /\ pc = "resolve"
    /\ resolutions < MaxResolutions
    /\ registry' \in Registries \ {registry}
    /\ UNCHANGED <<pc, validateVars, monitorVars, cache, resolutions, list_calls,
                   last_resolution, settled, failed_names, runVars, normVars, enumVars, legacyVars>>

NextResolve ==
    \/ Resolve
    \/ RegistryChanges

SpecResolve == InitResolve /\ [][NextResolve]_vars

---------------------------------------------------------------------------
(* Properties of the resolver, checked under SpecResolve.                  *)

Listed(name) == \E i \in DOMAIN registry : registry[i].name = name

\* C12: once a resolution of a name has completed with a handle or with
\* not-found, every later resolution of that name returns that same result and
\* issues no listing.
C12_CacheHit ==
    [][\A n \in Names :
         (resolutions' = resolutions + 1 /\ last_resolution'.name = n
             /\ n \in DOMAIN settled)
           => /\ last_resolution'.result = settled[n]
              /\ ~last_resolution'.listed
              /\ list_calls' = list_calls]_vars
\* a not-found result is served again although the machine is listed by now
C12_Witness ==
    /\ last_resolution.kind = "cached"
    /\ last_resolution.name \in DOMAIN settled
    /\ last_resolution.result = NoneStr
    /\ Listed(last_resolution.name)
    /\ list_calls = 1

\* C13: once a resolution of a name has failed, for whatever reason, every later
\* resolution of that name returns the failure and issues no listing.
C13_FailuresCached ==
    [][\A n \in Names :
         (resolutions' = resolutions + 1 /\ last_resolution'.name = n
             /\ n \in failed_names)
           => /\ last_resolution'.result = NoneStr
              /\ list_calls' = list_calls]_vars

---------------------------------------------------------------------------
(* _run_and_summarize_tests and _run_single_test, cli.py 258-354.          *)

\* scenario files: not JSON, the empty object, an object without `input`, and
\* an object with `input`
EmptyObject == JsonText(EmptyDict)
NoInput == JsonText([expected |-> Dict(EmptyDict)])
WithInput == JsonText([input |-> Dict(EmptyDict)])
ScenarioFiles == {MalformedText, EmptyObject, NoInput, WithInput}

\* a line of the log: its kind and the job or suite it is about, 0 when none
RunMsg(kind, subject) == [kind |-> kind, subject |-> subject]

\* lines 59-72, for a file that exists: the parsed content, or None with an
\* error logged
load_scenario(file) ==
    IF file.json
    THEN [loaded |-> TRUE, value |-> file.value, logged |-> {}]
    ELSE [loaded |-> FALSE, value |-> EmptyDict, logged |-> {"InvalidJson"}]

Falsy_emptyOnly(scenario) == scenario.loaded /\ scenario.value = EmptyDict
\* line 264, `not test_scenario_config`: None and the empty object are falsy
Falsy(scenario) == ~scenario.loaded \/ scenario.value = EmptyDict

Job(arn, file) == [state_machine_arn |-> arn, scenario_path |-> file]
JobLists == UNION {[1..n -> {Job("arn:1", f) : f \in ScenarioFiles}] : n \in 0..MaxJobs}
JobIds == DOMAIN test_jobs

InitDispatch ==
    /\ pc = "summarize"
    /\ ValidateIdle
    /\ MonitorIdle
    /\ NormIdle
    /\ EnumIdle
    /\ LegacyIdle
    /\ ResolveIdle
    /\ parallel \in BOOLEAN
    /\ wait \in BOOLEAN
    /\ root_exists = TRUE
    /\ suite_dirs = <<>>
    /\ suites = <<>>
    /\ suite_index = 0
    /\ skipped_suites = 0
    /\ test_jobs \in JobLists
    /\ job_pc = [i \in DOMAIN test_jobs |-> "queued"]
    /\ job_outcome = [i \in DOMAIN test_jobs |-> "none"]
    /\ results = [passed |-> 0, failed |-> 0]
    /\ start_calls = [i \in DOMAIN test_jobs |-> 0]
    /\ exit_status = -1
    /\ run_end = "none"

\* lines 301-311 and 336: the counters are there; without jobs the function
\* returns and the command ends normally
BeginDispatch ==
    /\ pc = "summarize"
    /\ IF test_jobs = <<>>
       THEN /\ log' = log \cup {RunMsg("NoTests", 0)}
            /\ pc' = "exited"
            /\ exit_status' = 0
            /\ run_end' = "returned"
       ELSE /\ pc' = "dispatch"
            /\ UNCHANGED <<log, exit_status, run_end>>
    /\ UNCHANGED <<validateVars, monitorQuiet, normVars, enumVars, legacyVars, resolveVars, flagVars, planVars, jobVars>>

JobEnds_workerCounts(i, how, logged) ==
    /\ job_outcome' = [job_outcome EXCEPT ![i] = how]
    /\ IF parallel
       THEN /\ job_pc' = [job_pc EXCEPT ![i] = "returned"]
            /\ log' = log \cup logged
            /\ results' = IF how = "pass"
                          THEN [results EXCEPT !.passed = @ + 1]
                          ELSE [results EXCEPT !.failed = @ + 1]
            /\ UNCHANGED <<pc, exitVars>>
       ELSE IF how = "raise"
       THEN /\ job_pc' = [job_pc EXCEPT ![i] = "returned"]
            /\ log' = log \cup logged \cup {RunMsg("Traceback", i)}
            /\ pc' = "exited"
            /\ exit_status' = 1
            /\ run_end' = "uncaught"
            /\ UNCHANGED results
       ELSE /\ job_pc' = [job_pc EXCEPT ![i] = "counted"]
            /\ log' = log \cup logged
            /\ results' = IF how = "pass"
                          THEN [results EXCEPT !.passed = @ + 1]
                          ELSE [results EXCEPT !.failed = @ + 1]
            /\ UNCHANGED <<pc, exitVars>>

\* lines 324-334 and 337-342: what the dispatcher does with the end of job i.
\* The parallel worker only hands the end to its future; the sequential loop
\* has called the job itself, counts its verdict at once, and an exception of
\* the job leaves the loop, the function and the command
JobEnds(i, how, logged) ==
    /\ job_outcome' = [job_outcome EXCEPT ![i] = how]
    /\ IF parallel
       THEN /\ job_pc' = [job_pc EXCEPT ![i] = "returned"]
            /\ log' = log \cup logged
            /\ UNCHANGED <<pc, results, exitVars>>
       ELSE IF how = "raise"
       THEN /\ job_pc' = [job_pc EXCEPT ![i] = "returned"]
            /\ log' = log \cup logged \cup {RunMsg("Traceback", i)}
            /\ pc' = "exited"
            /\ exit_status' = 1
            /\ run_end' = "uncaught"
            /\ UNCHANGED results
       ELSE /\ job_pc' = [job_pc EXCEPT ![i] = "counted"]
            /\ log' = log \cup logged
            /\ results' = IF how = "pass"
                          THEN [results EXCEPT !.passed = @ + 1]
                          ELSE [results EXCEPT !.failed = @ + 1]
            /\ UNCHANGED <<pc, exitVars>>

\* what the environment does to the first half of a job: nothing, StartExecution
\* raises a ClientError, or a log_message call raises (the log file cannot be
\* written) and the exception leaves _run_single_test
StartFates == {"ok", "ClientError", "raise"}

JobStart_unordered(i) ==
    /\ pc = "dispatch"
    /\ job_pc[i] = "queued"
    /\ \E fate \in StartFates :
         LET scenario == load_scenario(test_jobs[i].scenario_path)
         IN  IF fate = "raise"
             THEN /\ JobEnds(i, "raise", {})
                  /\ UNCHANGED start_calls
             ELSE IF Falsy(scenario)
             THEN /\ JobEnds(i, "fail", {RunMsg(k, i) : k \in scenario.logged})
                  /\ UNCHANGED start_calls
             ELSE /\ start_calls' = [start_calls EXCEPT ![i] = @ + 1]
                  /\ IF fate = "ClientError"
                     THEN JobEnds(i, "fail", {RunMsg("StartError", i)})
                     ELSE IF wait
                     THEN /\ job_pc' = [job_pc EXCEPT ![i] = "monitoring"]
                          /\ UNCHANGED <<pc, log, job_outcome, results, exitVars>>
                     ELSE JobEnds(i, "pass", {RunMsg("NoWait", i)})
    /\ UNCHANGED <<validateVars, monitorQuiet, normVars, enumVars, legacyVars, resolveVars, flagVars, planVars, test_jobs>>

\* lines 258-284, called by a worker (lines 313-321) or by the sequential loop
\* (lines 337-338), which takes the jobs in the order of the list, each after
\* the one before was counted: the scenario is loaded and rejected, or the
\* execution is started
JobStart(i) ==
    /\ pc = "dispatch"
    /\ job_pc[i] = "queued"
    /\ parallel \/ \A j \in JobIds : j < i => job_pc[j] = "counted"
    /\ \E fate \in StartFates :
         LET scenario == load_scenario(test_jobs[i].scenario_path)
         IN  IF fate = "raise"
             THEN /\ JobEnds(i, "raise", {})
                  /\ UNCHANGED start_calls
             ELSE IF Falsy(scenario)
             THEN /\ JobEnds(i, "fail", {RunMsg(k, i) : k \in scenario.logged})
                  /\ UNCHANGED start_calls
             ELSE /\ start_calls' = [start_calls EXCEPT ![i] = @ + 1]
                  /\ IF fate = "ClientError"
                     THEN JobEnds(i, "fail", {RunMsg("StartError", i)})
                     ELSE IF wait
                     THEN /\ job_pc' = [job_pc EXCEPT ![i] = "monitoring"]
                          /\ UNCHANGED <<pc, log, job_outcome, results, exitVars>>
                     ELSE JobEnds(i, "pass", {RunMsg("NoWait", i)})
    /\ UNCHANGED <<validateVars, monitorQuiet, normVars, enumVars, legacyVars, resolveVars, flagVars, planVars, test_jobs>>

StartJob == \E i \in JobIds : JobStart(i)

\* lines 286-297: monitor_sfn_execution returns its verdict, or an error it
\* raised is logged and the job returns False, or logging that error raises
MonitorReturns ==
    \E i \in JobIds :
        /\ pc = "dispatch"
        /\ job_pc[i] = "monitoring"
        /\ \E how \in {"pass", "fail", "raise"} :
             JobEnds(i, how, IF how = "fail" THEN {RunMsg("JobFailed", i)} ELSE {})
        /\ UNCHANGED <<validateVars, monitorQuiet, normVars, enumVars, legacyVars, resolveVars, flagVars, planVars,
                       test_jobs, start_calls>>

\* lines 323-334: the main thread takes a completed future and counts it
Collect ==
    \E i \in JobIds :
        /\ pc = "dispatch"
        /\ parallel
        /\ job_pc[i] = "returned"
        /\ job_pc' = [job_pc EXCEPT ![i] = "counted"]
        /\ results' = IF job_outcome[i] = "pass"
                      THEN [results EXCEPT !.passed = @ + 1]
                      ELSE [results EXCEPT !.failed = @ + 1]
        /\ log' = IF job_outcome[i] = "raise"
                  THEN log \cup {RunMsg("JobException", i)}
                  ELSE log
        /\ UNCHANGED <<pc, validateVars, monitorQuiet, normVars, enumVars, legacyVars, resolveVars, flagVars, planVars,
                       test_jobs, job_outcome, start_calls, exitVars>>

Summarize_passedDecides ==
    /\ pc = "dispatch"
    /\ \A i \in JobIds : job_pc[i] = "counted"
    /\ log' = log \cup {RunMsg("Summary", 0)}
    /\ pc' = "exited"
    /\ exit_status' = IF results.passed = 0 THEN 1 ELSE 0
    /\ run_end' = IF results.passed = 0 THEN "sys_exit" ELSE "returned"
    /\ UNCHANGED <<validateVars, monitorQuiet, normVars, enumVars, legacyVars, resolveVars, flagVars, planVars, jobVars>>

\* lines 344-354: the summary and the exit status
Summarize ==
    /\ pc = "dispatch"
    /\ \A i \in JobIds : job_pc[i] = "counted"
    /\ log' = log \cup {RunMsg("Summary", 0)}
    /\ pc' = "exited"
    /\ exit_status' = IF results.failed > 0 THEN 1 ELSE 0
    /\ run_end' = IF results.failed > 0 THEN "sys_exit" ELSE "returned"
    /\ UNCHANGED <<validateVars, monitorQuiet, normVars, enumVars, legacyVars, resolveVars, flagVars, planVars, jobVars>>

NextDispatch ==
    \/ BeginDispatch
    \/ StartJob
    \/ MonitorReturns
    \/ Collect
    \/ Summarize

SpecDispatch == InitDispatch /\ [][NextDispatch]_vars

---------------------------------------------------------------------------
(* Properties of the dispatcher, checked under SpecDispatch.               *)

Exited == pc = "exited"
JobsWith(how) == {i \in JobIds : job_outcome[i] = how}
FileOf(i) == test_jobs[i].scenario_path

\* C14: the counters and the exit disposition at the end are those given by
\* the per-job outcomes alone (passes counted as passed, failures and raised
\* errors as failed, exit 1 exactly when something failed), in parallel and in
\* sequential dispatch alike.
C14_OrderIndependent ==
    (Exited /\ test_jobs # <<>>)
      => /\ JobsWith("none") = {}
         /\ results.passed = Cardinality(JobsWith("pass"))
         /\ results.failed = Cardinality(JobsWith("fail") \cup JobsWith("raise"))
         /\ run_end = IF results.failed > 0 THEN "sys_exit" ELSE "returned"

\* C16: in sequential mode a job is started only after every job before it in
\* the list has returned its verdict and was counted, and at most one job is in
\* flight.
C16_SequentialOrder ==
    ~parallel
      => /\ \A i \in JobIds :
              job_pc[i] # "queued" => \A j \in 1..(i - 1) : job_pc[j] = "counted"
         /\ Cardinality({i \in JobIds : job_pc[i] = "monitoring"}) <= 1
C16_Witness ==
    /\ ~parallel
    /\ Len(test_jobs) = MaxJobs
    /\ job_pc[1] = "counted"
    /\ job_pc[2] = "monitoring"
    /\ \A j \in 3..MaxJobs : job_pc[j] = "queued"

\* C17: a job that raised is counted as one failed job with its error logged,
\* and every other job of the list was executed and counted when the run ends.
C17_JobIsolation ==
    Exited
      => /\ \A i \in JobIds : job_pc[i] = "counted"
         /\ \A i \in JobsWith("raise") : RunMsg("JobException", i) \in log
         /\ results.passed + results.failed = Len(test_jobs)

\* C18: a job whose file is not valid JSON issues no StartExecution call and
\* ends as failed with the parse error logged; the dispatcher then still takes
\* the jobs that are left, and the run ends only when none is left or when some
\* job raised.
C18_MalformedNonFatal ==
    \A i \in JobIds :
        ~FileOf(i).json
          => /\ start_calls[i] = 0
             /\ job_outcome[i] \in {"none", "fail", "raise"}
             /\ job_outcome[i] = "fail"
                  => /\ RunMsg("InvalidJson", i) \in log
                     /\ job_pc[i] = "counted" => results.failed >= 1
                     /\ (/\ pc = "dispatch"
                         /\ i + 1 \in JobIds
                         /\ job_pc[i + 1] = "queued"
                         /\ \A j \in 1..i : job_pc[j] = "counted")
                          => ENABLED JobStart(i + 1)
                     /\ Exited => \/ \A j \in JobIds : job_pc[j] = "counted"
                                  \/ JobsWith("raise") # {}
C18_Witness ==
    /\ Len(test_jobs) >= 2
    /\ ~FileOf(1).json
    /\ job_outcome[1] = "fail"
    /\ job_pc[1] = "counted"
    /\ start_calls[1] = 0
    /\ start_calls[2] = 1
    /\ job_outcome[2] = "pass"

\* C19: a job whose file is valid JSON without an `input` section issues no
\* StartExecution call and ends as failed.
C19_MissingInputRejected ==
    \A i \in JobIds :
        (FileOf(i).json /\ "input" \notin DOMAIN FileOf(i).value)
          => /\ start_calls[i] = 0
             /\ job_outcome[i] \in {"none", "fail", "raise"}

---------------------------------------------------------------------------
(* The run command without --interactive and without --scenario,           *)
(* cli.py 443-517.                                                         *)

\* a suite's case directory: missing, or with its scenario files in sorted order
CaseDir(is_dir, files) == [is_dir |-> is_dir, files |-> files]
NoCasesDir == CaseDir(FALSE, <<>>)
CaseDirs ==
    {NoCasesDir, CaseDir(TRUE, <<>>)} \cup {CaseDir(TRUE, <<f>>) : f \in {MalformedText, WithInput}}

\* the suites of the run: two that the service lists and one, differing from
\* a listed one in case only, that it does not list
SuiteNames == Names \cup {"billing"}
RunRegistry ==
    <<[name |-> "orders", stateMachineArn |-> "arn:1"],
      [name |-> "billing", stateMachineArn |-> "arn:2"]>>
RunFaults == {NoFault, [kind |-> "ClientError", after |-> 0],
              [kind |-> "Exception", after |-> 0]}

\* a suite directory: missing, or there with its case directory
SuiteDir(is_dir, cases) == [is_dir |-> is_dir, cases |-> cases]
SuiteDirs == {SuiteDir(FALSE, NoCasesDir)} \cup {SuiteDir(TRUE, c) : c \in CaseDirs}

\* the suites of the run in order, each with the way the listing goes when it is
\* resolved: all directories of the root, or the distinct names of the command line
SuiteLists ==
    {l \in UNION {[1..n -> [name : SuiteNames, fault : RunFaults]] : n \in 0..MaxSuites} :
        \A i, j \in DOMAIN l : l[i].name = l[j].name => i = j}

\* the directories under the root, for a list of suites: a directory that the
\* run does not look into is left out or empty
SuiteTrees(l) ==
    {t \in [SuiteNames -> SuiteDirs] :
        /\ \A n \in SuiteNames :
             (\A k \in DOMAIN l : l[k].name # n) => t[n] = SuiteDir(FALSE, NoCasesDir)
        /\ \A k \in DOMAIN l :
             /\ ~t[l[k].name].is_dir => l[k].fault = NoFault
             /\ (l[k].fault # NoFault \/ FirstMatch(RunRegistry, Len(RunRegistry), l[k].name) = 0)
                  => t[l[k].name].cases = NoCasesDir}

InitRun ==
    /\ pc = "run"
    /\ ValidateIdle
    /\ MonitorIdle
    /\ NormIdle
    /\ EnumIdle
    /\ LegacyIdle
    /\ cache = EmptyDict
    /\ registry = RunRegistry
    /\ resolutions = 0
    /\ list_calls = 0
    /\ last_resolution = NoResolution
    /\ settled = EmptyDict
    /\ failed_names = {}
    /\ parallel \in BOOLEAN
    /\ wait \in BOOLEAN
    /\ root_exists \in BOOLEAN
    /\ suites \in IF root_exists THEN SuiteLists ELSE {<<>>}
    /\ suite_dirs \in SuiteTrees(suites)
    /\ suite_index = 0
    /\ skipped_suites = 0
    /\ test_jobs = <<>>
    /\ job_pc = <<>>
    /\ job_outcome = <<>>
    /\ results = [passed |-> 0, failed |-> 0]
    /\ start_calls = <<>>
    /\ exit_status = -1
    /\ run_end = "none"

\* the suite directories that exist and are still to be gone through
IsDir(k) == suite_dirs[suites[k].name].is_dir
SuitesLeft == {k \in DOMAIN suites : k > suite_index /\ IsDir(k)}
NextSuite == CHOOSE k \in SuitesLeft : \A j \in SuitesLeft : k <= j

\* lines 461-479: without the root directory the command exits with status 1;
\* named suites that do not exist are warned about; without a suite left the
\* command returns
EnterRun ==
    /\ pc = "run"
    /\ IF ~root_exists
       THEN /\ log' = log \cup {RunMsg("NoRootDir", 0)}
            /\ pc' = "exited"
            /\ exit_status' = 1
            /\ run_end' = "sys_exit"
       ELSE LET missing == {RunMsg("SuiteNotFound", k) :
                               k \in {j \in DOMAIN suites : ~IsDir(j)}}
            IN  IF SuitesLeft = {}
                THEN /\ log' = log \cup missing \cup {RunMsg("NoValidSuite", 0)}
                     /\ pc' = "exited"
                     /\ exit_status' = 0
                     /\ run_end' = "returned"
                ELSE /\ log' = log \cup missing
                     /\ pc' = "plan"
                     /\ UNCHANGED exitVars
    /\ UNCHANGED <<validateVars, monitorQuiet, normVars, enumVars, legacyVars, resolveVars, flagVars, planVars, jobVars>>

\* what the loop of run does after the resolution of suite k: lines 485-512
PlanAfter(k, r) ==
    LET cases == suite_dirs[suites[k].name].cases
    IN  IF r.kind = "raised"
        THEN /\ log' = log \cup {RunMsg("Traceback", k)}
             /\ pc' = "exited"
             /\ exit_status' = 1
             /\ run_end' = "uncaught"
             /\ UNCHANGED <<skipped_suites, jobVars>>
        ELSE IF r.result = NoneStr
        THEN /\ log' = log \cup {RunMsg("SkipSuite", k)}
             /\ skipped_suites' = skipped_suites + 1
             /\ UNCHANGED <<pc, exitVars, jobVars>>
        ELSE IF ~cases.is_dir
        THEN /\ log' = log \cup {RunMsg("NoCasesDir", k)}
             /\ UNCHANGED <<pc, exitVars, skipped_suites, jobVars>>
        ELSE /\ test_jobs' = test_jobs \o [i \in DOMAIN cases.files |->
                                             Job(r.result, cases.files[i])]
             /\ job_pc' = job_pc \o [i \in DOMAIN cases.files |-> "queued"]
             /\ job_outcome' = job_outcome \o [i \in DOMAIN cases.files |-> "none"]
             /\ start_calls' = start_calls \o [i \in DOMAIN cases.files |-> 0]
             /\ UNCHANGED <<pc, log, exitVars, skipped_suites, results>>

\* lines 483-512: one turn of the loop over the suites: the suite is resolved,
\* then skipped or its scenario files are appended to the job list
PlanSuite ==
    /\ pc = "plan"
    /\ SuitesLeft # {}
    /\ Resolving(suites[NextSuite].name, suites[NextSuite].fault)
    /\ PlanAfter(NextSuite,
                 find_state_machine_arn(cache, suites[NextSuite].name, registry,
                                        suites[NextSuite].fault))
    /\ suite_index' = NextSuite
    /\ UNCHANGED <<validateVars, monitorQuiet, normVars, enumVars, legacyVars, flagVars, root_exists, suite_dirs, suites>>

\* lines 514-517: the skipped suites are logged and the job list goes to
\* _run_and_summarize_tests
FinishPlan ==
    /\ pc = "plan"
    /\ SuitesLeft = {}
    /\ log' = IF skipped_suites > 0 THEN log \cup {RunMsg("SkippedCount", 0)} ELSE log
    /\ pc' = "summarize"
    /\ UNCHANGED <<validateVars, monitorQuiet, normVars, enumVars, legacyVars, resolveVars, flagVars, planVars,
                   jobVars, exitVars>>

NextRun ==
    \/ EnterRun
    \/ PlanSuite
    \/ FinishPlan
    \/ BeginDispatch
    \/ StartJob
    \/ MonitorReturns
    \/ Collect
    \/ Summarize

SpecRun == InitRun /\ [][NextRun]_vars

---------------------------------------------------------------------------
(* Properties of the run command, checked under SpecRun.                   *)

\* an exception left the command: a job raised in the sequential loop, or the
\* listing raised something other than a ClientError
Aborted ==
    \/ ~parallel /\ JobsWith("raise") # {}
    \/ last_resolution.kind = "raised"

\* C15 as stated: the exit status is non-zero exactly when a job was counted as
\* failed.
C15_Original == Exited => (exit_status # 0 <=> results.failed > 0)
\* C15: the exit status is 1 exactly when a job was counted as failed, the root
\* directory is missing, or an exception left the command; otherwise it is 0,
\* as for runs without a job and runs whose suites were all skipped.
C15_ExitStatus ==
    Exited
      => /\ exit_status \in {0, 1}
         /\ exit_status = 1 <=> (results.failed > 0 \/ ~root_exists \/ Aborted)
         /\ (root_exists /\ ~Aborted /\ results.failed = 0) => run_end = "returned"
C15_Witness ==
    /\ Exited
    /\ exit_status = 0
    /\ skipped_suites = 1
    /\ results = [passed |-> 1, failed |-> 0]

\* the suite the loop has gone through has no case directory or no scenario file
EmptySuite(k) ==
    /\ k <= suite_index
    /\ IsDir(k)
    /\ suite_dirs[suites[k].name].cases.files = <<>>

\* C20: a suite without case directory or without scenario file is reported as
\* skipped: the log holds a line that names it.
C20_EmptySuitesReported ==
    last_resolution.kind # "raised"
      => \A k \in DOMAIN suites :
            EmptySuite(k)
              => \E kind \in {"SkipSuite", "NoCasesDir", "NoScenarios"} :
                    RunMsg(kind, k) \in log

\* the resolution of suite k ends without a handle: the service does not list
\* its name, or the listing fails
Unresolvable(k) ==
    \/ suites[k].fault # NoFault
    \/ \A i \in DOMAIN registry : registry[i].name # suites[k].name
SuitesDone == {k \in DOMAIN suites : k <= suite_index /\ IsDir(k)}

\* C21: every suite gone through whose resolution ended without a handle is
\* logged and counted as skipped and adds no job, and the command is not left
\* because of it: the suites after it are gone through as well.
C21_ResolutionErrorsSkip ==
    /\ skipped_suites = Cardinality({k \in SuitesDone : Unresolvable(k)})
    /\ \A k \in SuitesDone : Unresolvable(k) => RunMsg("SkipSuite", k) \in log
    /\ \A i \in JobIds : \E k \in SuitesDone :
           ~Unresolvable(k) /\ test_jobs[i].scenario_path \in
               {suite_dirs[suites[k].name].cases.files[j] :
                    j \in DOMAIN suite_dirs[suites[k].name].cases.files}
    /\ (pc # "plan" /\ pc # "run" /\ root_exists) => SuitesLeft = {}

---------------------------------------------------------------------------
(* The normalization of validate_execution_result, cli.py 152-177,         *)
(* computed repeatedly over one parsed output.                             *)

InitNormalize ==
    /\ pc = "normalize"
    /\ scenario_config \in
           {("input" :> Dict(EmptyDict)) @@ ("expected" :> b) : b \in ExpectedBlocks}
    /\ execution_details \in
           {("status" :> "SUCCEEDED") @@ ("output" :> JsonText(x)) : x \in ActualOutputs}
    /\ is_pass = FALSE
    /\ validation_messages = <<>>
    /\ MonitorIdle
    /\ ResolveIdle
    /\ RunIdle
    /\ EnumIdle
    /\ LegacyIdle
    /\ parsed_output = json_loads(execution_details["output"]).value
    /\ projections = <<>>

NormalizeOnce_consuming ==
    /\ pc = "normalize"
    /\ Len(projections) < MaxNormalizations
    /\ projections' = Append(projections,
                             Normalize(parsed_output, scenario_config["expected"]))
    /\ parsed_output' =
           IF parsed_output.t = "dict"
           THEN Dict([k \in DOMAIN parsed_output.v \ {"apiResult"} |-> parsed_output.v[k]])
           ELSE parsed_output
    /\ UNCHANGED <<pc, validateVars, monitorVars, resolveVars, runVars, enumVars,
                   legacyVars>>

\* lines 157-177: validation_results and validation_errors are built anew from
\* actual_output, which is only read
NormalizeOnce ==
    /\ pc = "normalize"
    /\ Len(projections) < MaxNormalizations
    /\ projections' = Append(projections,
                             Normalize(parsed_output, scenario_config["expected"]))
    /\ UNCHANGED <<pc, validateVars, monitorVars, resolveVars, runVars, enumVars,
                   legacyVars, parsed_output>>

NextNormalize == NormalizeOnce

SpecNormalize == InitNormalize /\ [][NextNormalize]_vars

---------------------------------------------------------------------------
(* Accumulation of diagnostics, checked under SpecValidate.                *)

\* the execution FAILED with neither the expected error type nor the expected cause
BothErrorChecksViolated ==
    /\ Validated /\ ErrorGiven /\ CauseGiven
    /\ execution_details["status"] = "FAILED"
    /\ scenario_config["error"]["Error"] # ActualError
    /\ ~CauseContained
\* the mapped keys of the expected block whose path does not resolve
UnresolvedKeys == {k \in ExpectedKeys \cap DOMAIN MappedPath : Resolved(k) = {}}
C23_ErrorChecksAccumulated ==
    BothErrorChecksViolated => HasMsg("ErrorTypeMismatch") /\ HasMsg("CauseMismatch")
C23_PathsAccumulated ==
    OutputCompared =>
        \A k \in UnresolvedKeys : HasMsgOf("PathNotFound", MappedPath[k])

\* C23: a record that violates both the expected error type and the expected
\* cause gets a diagnostic for each of the two checks, and a record with
\* several unresolvable mapped paths gets a diagnostic for each path.
C23_DiagnosticsAccumulated ==
    /\ C23_ErrorChecksAccumulated
    /\ C23_PathsAccumulated

---------------------------------------------------------------------------
(* Diagnostics of failed jobs, checked under SpecDispatch.                 *)

\* the kinds of log lines that tell why a job did not pass
DiagnosticKinds == {"InvalidJson", "StartError", "JobFailed", "JobException", "Traceback"}
Diagnosed(i) == \E m \in log : m.subject = i /\ m.kind \in DiagnosticKinds
CountedFailed(i) == job_pc[i] = "counted" /\ job_outcome[i] # "pass"

\* C24: every job counted as failed has a diagnostic line in the log, whatever
\* made it fail.
C24_NoSilentFailure ==
    \A i \in JobIds : CountedFailed(i) => Diagnosed(i)

---------------------------------------------------------------------------
(* One job from its scenario file to its verdict: _run_single_test,        *)
(* cli.py 258-297, followed by the monitor it calls.                       *)

\* the scenario files of one job
JobFiles == {MalformedText, EmptyObject} \cup {JsonText(c) : c \in MonitorScenarios}

\* lines 269-271: sfn_input is the loaded dict itself, and the run id is
\* stored in it
WithRunId(sfn_input) ==
    [k \in DOMAIN sfn_input \cup {"testRunId"} |->
        IF k = "testRunId" THEN Str("uuid4") ELSE sfn_input[k]]

InitJob ==
    /\ pc = "job"
    /\ ValidateIdle
    /\ status = "RUNNING"
    /\ remote = Running
    /\ depth = 0
    /\ calls = 0
    /\ since_call = -1
    /\ last_gap = -1
    /\ last_call_retry = FALSE
    /\ poll_outcome = "none"
    /\ log = {}
    /\ analysis_enabled \in BOOLEAN
    /\ analysis_calls = 0
    /\ polls = 0
    /\ validations = 0
    /\ ResolveIdle
    /\ NormIdle
    /\ EnumIdle
    /\ LegacyIdle
    /\ parallel = FALSE
    /\ wait \in BOOLEAN
    /\ root_exists = TRUE
    /\ suite_dirs = <<>>
    /\ suites = <<>>
    /\ suite_index = 0
    /\ skipped_suites = 0
    /\ test_jobs \in {<<Job("arn:1", f)>> : f \in JobFiles}
    /\ job_pc = <<"queued">>
    /\ job_outcome = <<"none">>
    /\ results = [passed |-> 0, failed |-> 0]
    /\ start_calls = <<0>>
    /\ exit_status = -1
    /\ run_end = "none"

\* the job ends with the verdict or the exception `how`
JobDone(how, logged) ==
    /\ pc' = "done"
    /\ job_pc' = <<"returned">>
    /\ job_outcome' = <<how>>
    /\ log' = log \cup logged

RunSingleTest_alwaysWaits ==
    /\ pc = "job"
    /\ \E fate \in StartFates :
         LET scenario == load_scenario(test_jobs[1].scenario_path)
         IN  IF fate = "raise"
             THEN /\ JobDone("raise", {})
                  /\ UNCHANGED <<scenario_config, start_calls>>
             ELSE IF Falsy(scenario)
             THEN /\ JobDone("fail", scenario.logged)
                  /\ UNCHANGED <<scenario_config, start_calls>>
             ELSE /\ scenario_config' = WithRunId(scenario.value)
                  /\ start_calls' = <<start_calls[1] + 1>>
                  /\ IF fate = "ClientError"
                     THEN JobDone("fail", {"StartError"})
                     ELSE /\ pc' = "sleep"
                          /\ job_pc' = <<"monitoring">>
                          /\ UNCHANGED <<log, job_outcome>>
    /\ UNCHANGED <<execution_details, is_pass, validation_messages, monitorQuiet,
                   resolveVars, normVars, enumVars, legacyVars, flagVars, planVars,
                   test_jobs, results, exitVars>>

RunSingleTest_monitorsAnyway ==
    /\ pc = "job"
    /\ \E fate \in StartFates :
         LET scenario == load_scenario(test_jobs[1].scenario_path)
         IN  IF fate = "raise"
             THEN /\ JobDone("raise", {})
                  /\ UNCHANGED <<scenario_config, start_calls>>
             ELSE IF Falsy(scenario)
             THEN /\ JobDone("fail", scenario.logged)
                  /\ UNCHANGED <<scenario_config, start_calls>>
             ELSE /\ scenario_config' = WithRunId(scenario.value)
                  /\ start_calls' = <<start_calls[1] + 1>>
                  /\ IF wait
                     THEN /\ pc' = "sleep"
                          /\ job_pc' = <<"monitoring">>
                          /\ log' = IF fate = "ClientError"
                                    THEN log \cup {"StartError"} ELSE log
                          /\ UNCHANGED job_outcome
                     ELSE JobDone("pass", {"NoWait"})
    /\ UNCHANGED <<execution_details, is_pass, validation_messages, monitorQuiet,
                   resolveVars, normVars, enumVars, legacyVars, flagVars, planVars, test_jobs, results,
                   exitVars>>

\* lines 258-291: the scenario is loaded and rejected, or the run id is stored
\* in it and the execution is started; an execution that started is handed to
\* the monitor together with the scenario, or left alone without --wait
RunSingleTest ==
    /\ pc = "job"
    /\ \E fate \in StartFates :
         LET scenario == load_scenario(test_jobs[1].scenario_path)
         IN  IF fate = "raise"
             THEN /\ JobDone("raise", {})
                  /\ UNCHANGED <<scenario_config, start_calls>>
             ELSE IF Falsy(scenario)
             THEN /\ JobDone("fail", scenario.logged)
                  /\ UNCHANGED <<scenario_config, start_calls>>
             ELSE /\ scenario_config' = WithRunId(scenario.value)
                  /\ start_calls' = <<start_calls[1] + 1>>
                  /\ IF fate = "ClientError"
                     THEN JobDone("fail", {"StartError"})
                     ELSE IF wait
                     THEN /\ pc' = "sleep"
                          /\ job_pc' = <<"monitoring">>
                          /\ UNCHANGED <<log, job_outcome>>
                     ELSE JobDone("pass", {"NoWait"})
    /\ UNCHANGED <<execution_details, is_pass, validation_messages, monitorQuiet,
                   resolveVars, normVars, enumVars, legacyVars, flagVars, planVars, test_jobs, results,
                   exitVars>>

\* lines 286-287: the verdict of the monitor is the verdict of the job
JobReturns ==
    /\ pc = "returned"
    /\ JobDone(IF is_pass THEN "pass" ELSE "fail", {})
    /\ UNCHANGED <<validateVars, monitorQuiet, resolveVars, normVars, enumVars, legacyVars, flagVars,
                   planVars, test_jobs, results, start_calls, exitVars>>

\* the execution of a job that was left alone ends; the command does not act
RemoteTerminatesUnwatched ==
    /\ pc = "done"
    /\ ~wait
    /\ job_outcome = <<"pass">>
    /\ remote = Running
    /\ remote' \in TerminalRecords
    /\ UNCHANGED <<pc, validateVars, status, depth, calls, clockVars, poll_outcome,
                   log, analysis_enabled, analysis_calls, polls,
                   validations, otherVars>>

NextJob ==
    \/ RunSingleTest
    \/ RemoteTerminatesUnwatched
    \/ RemoteTerminates
    \/ MonitorSleep
    \/ DescribeReturns
    \/ DescribeThrottled
    \/ DescribeStackExhausted
    \/ DescribeFails
    \/ MonitorReport
    \/ JobReturns

SpecJob == InitJob /\ [][NextJob]_vars

\* the record that load_scenario returned for the job
LoadedRecord == load_scenario(test_jobs[1].scenario_path).value

\* C25: the record handed to the validation is equal, key for key, to the
\* record loaded from the scenario file.
C25_ScenarioUnchanged ==
    validations > 0 => scenario_config = LoadedRecord

---------------------------------------------------------------------------
(* The monitor's report, checked under SpecMonitor.                        *)

\* C26: the failure analysis is invoked at most once, and only when analysis is
\* enabled and the terminal status is FAILED; it is not invoked for SUCCEEDED,
\* TIMED_OUT, ABORTED or UNKNOWN.
C26_AnalysisGated ==
    /\ analysis_calls <= 1
    /\ analysis_calls > 0 => analysis_enabled /\ status = "FAILED"
    /\ status \in {"SUCCEEDED", "TIMED_OUT", "ABORTED", "UNKNOWN"} => analysis_calls = 0
C26_Witness ==
    /\ pc = "returned"
    /\ analysis_calls = 1
    /\ status = "FAILED"

---------------------------------------------------------------------------
(* Fatal and non-fatal errors of the run command, checked under SpecRun.   *)

\* the run ended without the root directory: reported, nothing resolved or started
RootMissingIsFatal ==
    (pc = "exited" /\ ~root_exists) =>
        /\ RunMsg("NoRootDir", 0) \in log
        /\ resolutions = 0 /\ list_calls = 0
        /\ test_jobs = <<>>
\* the run ended with every suite gone through and every job dispatched
AllDispatched ==
    /\ SuitesLeft = {}
    /\ \A i \in JobIds : job_pc[i] # "queued"

\* C27: a run without its root directory reports it and ends before any
\* resolution or start; every other run ends only after every suite was gone
\* through and every job was dispatched.
C27_OnlyRootFatal ==
    /\ RootMissingIsFatal
    /\ (pc = "exited" /\ root_exists) => AllDispatched

---------------------------------------------------------------------------
(* The order of the operations of one job, checked under SpecJob.          *)

\* a status query can be issued in this state
QueryEnabled ==
    \/ ENABLED MonitorSleep
    \/ ENABLED DescribeReturns
    \/ ENABLED DescribeThrottled
    \/ ENABLED DescribeFails
DescribeErrorLogged == log \cap {"AwsDescribeError", "UnexpectedDescribeError"} # {}

\* C28: after a status query failed with an error other than rate limiting no
\* further query is issued, the error is logged, the validation is not run, and
\* the verdict of the job is fail.
C28_TransportErrorEndsJob ==
    poll_outcome = "failed" =>
        /\ ~QueryEnabled
        /\ DescribeErrorLogged
        /\ validations = 0
        /\ pc \in {"report", "returned", "done"}
        /\ pc \in {"returned", "done"} => ~is_pass
        /\ pc = "done" => job_outcome = <<"fail">>
C28_Witness ==
    /\ poll_outcome = "failed"
    /\ pc = "done"
    /\ polls >= 2
    /\ "NoFinalDetails" \in log

Queried == polls > 0 \/ calls > 0
StartFailed == "StartError" \in log

---------------------------------------------------------------------------
(* Shared state under parallel dispatch, checked under SpecRun.            *)

Counted(how) == {i \in JobIds : job_pc[i] = "counted" /\ job_outcome[i] \in how}
\* every verdict taken from a future is in the counters, once
CountersExact ==
    parallel =>
        /\ results.passed = Cardinality(Counted({"pass"}))
        /\ results.failed = Cardinality(Counted({"fail", "raise"}))
\* a step of a worker thread: a job of the pool loads and starts, or its
\* monitor returns
WorkerStep ==
    /\ parallel
    /\ \E i \in JobIds : job_pc[i] \in {"queued", "monitoring"} /\ job_pc'[i] # job_pc[i]

\* C29: under parallel dispatch no increment of the counters is lost, no worker
\* thread reads or writes the counters or the resolver cache, and the cache is
\* written only while the job list is built, before any worker exists.
C29_SharedStateSingleThreaded ==
    /\ []CountersExact
    /\ [][WorkerStep => UNCHANGED <<results, cache>>]_vars
    /\ [][cache' # cache => pc = "plan"]_vars
C29_Witness ==
    /\ parallel
    /\ pc = "exited"
    /\ results.passed = 1
    /\ results.failed = 1
    /\ DOMAIN cache # {}

---------------------------------------------------------------------------
(* Consumption of the jobs, checked under SpecDispatch.                    *)

\* no job was started twice, and the counters hold one increment for every
\* job that was counted
CountedOnce ==
    /\ \A i \in JobIds : start_calls[i] <= 1
    /\ results.passed + results.failed
           = Cardinality({i \in JobIds : job_pc[i] = "counted"})
\* the dispatch ends only with every job counted
EveryJobCounted ==
    pc = "exited" => \A i \in JobIds : job_pc[i] = "counted"
\* the summary is printed with every job counted
SummaryComplete ==
    RunMsg("Summary", 0) \in log =>
        /\ \A i \in JobIds : job_pc[i] = "counted"
        /\ results.passed + results.failed = Len(test_jobs)
CountersMonotone ==
    [][/\ results'.passed >= results.passed
       /\ results'.failed >= results.failed]_vars

\* C31: every job leads to at most one start and to exactly one increment of
\* one counter, the counters never decrease, and when the dispatch is over all
\* jobs are counted and passed + failed is the number of jobs.
C31_ConsumedOnce ==
    /\ [](CountedOnce /\ EveryJobCounted /\ SummaryComplete)
    /\ CountersMonotone

---------------------------------------------------------------------------
(* The scenario files of one suite, run of cli.py, lines 496-512.          *)

\* scenario names as character codes: "a", "a-" and "b"
Stems == {<<97>>, <<97, 45>>, <<98>>}
JsonSuffix == <<46, 106, 115, 111, 110>>
\* line 500: the file of a scenario name
FileName(s_name) == s_name \o JsonSuffix
\* the case directories: any set of scenario files
NamedCaseDirs == SUBSET {FileName(s) : s \in Stems}
Filters == UNION {[1..n -> Stems] : n \in 0..MaxFilter}

\* the order of str, which Path uses for the names in one directory
RECURSIVE LexLess(_, _)
LexLess(a, b) ==
    IF b = <<>> THEN FALSE
    ELSE IF a = <<>> THEN TRUE
    ELSE IF Head(a) = Head(b) THEN LexLess(Tail(a), Tail(b))
    ELSE Head(a) < Head(b)

\* sorted(): the elements of paths in ascending order
RECURSIVE Insert(_, _)
Insert(path, ordered) ==
    IF ordered = <<>> THEN <<path>>
    ELSE IF LexLess(Head(ordered), path)
    THEN <<Head(ordered)>> \o Insert(path, Tail(ordered))
    ELSE <<path>> \o ordered
RECURSIVE sorted(_)
sorted(paths) ==
    IF paths = <<>> THEN <<>> ELSE Insert(Head(paths), sorted(Tail(paths)))

\* line 496: glob yields the files of the directory in an order of its own
GlobOrders(dir) ==
    {g \in [1..Cardinality(dir) -> dir] : \A i, j \in DOMAIN g : i # j => g[i] # g[j]}

scenarios_to_execute_paths_noExistsCheck(glob, filter, dir) ==
    IF filter # <<>>
    THEN [i \in DOMAIN filter |-> FileName(filter[i])]
    ELSE sorted(glob)
\* lines 497-506: the named scenarios whose file exists, in the order they
\* were named, or without names every file of the directory, sorted
scenarios_to_execute_paths(glob, filter, dir) ==
    IF filter # <<>>
    THEN SelectSeq([i \in DOMAIN filter |-> FileName(filter[i])],
                   LAMBDA path : path \in dir)
    ELSE sorted(glob)

InitEnumerate ==
    /\ pc = "enumerate"
    /\ ValidateIdle
    /\ MonitorIdle
    /\ ResolveIdle
    /\ RunIdle
    /\ NormIdle
    /\ LegacyIdle
    /\ cases_dir \in NamedCaseDirs
    /\ scenarios_to_run \in Filters
    /\ scenarios_in_dir = <<>>
    /\ enumerated = <<>>

\* lines 496-512 for one suite: the scenario paths of the jobs appended, and a
\* warning for every name without a file
EnumerateScenarios ==
    /\ pc = "enumerate"
    /\ Len(enumerated) < MaxEnumerations
    /\ \E glob \in GlobOrders(cases_dir) :
         /\ scenarios_in_dir' = glob
         /\ enumerated' = Append(enumerated,
                scenarios_to_execute_paths(glob, scenarios_to_run, cases_dir))
    /\ log' = log \cup {RunMsg("ScenarioNotFound", scenarios_to_run[i]) :
                           i \in {j \in DOMAIN scenarios_to_run :
                                     FileName(scenarios_to_run[j]) \notin cases_dir}}
    /\ UNCHANGED <<pc, validateVars, monitorQuiet, resolveVars, runVars, normVars,
                   legacyVars, cases_dir, scenarios_to_run>>

NextEnumerate == EnumerateScenarios

SpecEnumerate == InitEnumerate /\ [][NextEnumerate]_vars

\* the paths are in ascending order of their file names
Ascending(paths) ==
    \A i \in DOMAIN paths : i + 1 \in DOMAIN paths => ~LexLess(paths[i + 1], paths[i])
SameEveryRun == \A q, r \in DOMAIN enumerated : enumerated[q] = enumerated[r]

\* C32: the jobs of a suite are in lexicographic order of their scenario file
\* names, and in the same order on every run over the same files.
C32_LexicographicOrder ==
    /\ \A r \in DOMAIN enumerated : Ascending(enumerated[r])
    /\ SameEveryRun

\* the names of the filter and those of them whose file is in the directory
FilterNames == {scenarios_to_run[i] : i \in DOMAIN scenarios_to_run}
PresentNames == {n \in FilterNames : (n \o <<46, 106, 115, 111, 110>>) \in cases_dir}
PathsOf(r) == {enumerated[r][i] : i \in DOMAIN enumerated[r]}

\* C33: with a non-empty filter the jobs of a suite are exactly the named
\* scenarios whose file is in the case directory; a name without a file gives a
\* warning, no job and no failure.
C33_SubsetFilter ==
    scenarios_to_run # <<>> =>
        \A r \in DOMAIN enumerated :
            /\ PathsOf(r) = {n \o <<46, 106, 115, 111, 110>> : n \in PresentNames}
            /\ \A n \in FilterNames \ PresentNames :
                   /\ RunMsg("ScenarioNotFound", n) \in log
                   /\ (n \o <<46, 106, 115, 111, 110>>) \notin PathsOf(r)
            /\ results = [passed |-> 0, failed |-> 0]
C33_Witness ==
    /\ Len(enumerated) = MaxEnumerations
    /\ PresentNames # {}
    /\ FilterNames \ PresentNames # {}
    /\ Cardinality(cases_dir) > 1

---------------------------------------------------------------------------
(* The submitted document and the mode without --wait, checked under       *)
(* SpecJob.                                                                *)

\* line 278: the document given to StartExecution is the dump of sfn_input,
\* which is the scenario record of the job
SubmittedDocument == scenario_config
Submitted == start_calls = <<1>>

\* C34: the document of every submitted execution carries the correlation
\* identifier inside its `input` payload.
C34_RunIdInInput ==
    Submitted =>
        /\ "input" \in DOMAIN SubmittedDocument
        /\ SubmittedDocument["input"].t = "dict"
        /\ "testRunId" \in DOMAIN SubmittedDocument["input"].v

---------------------------------------------------------------------------
(* The entries of the resolver's cache, checked under SpecResolve.         *)

\* the entries of the cache are in it after the step, unchanged
EntriesKept == \A n \in DOMAIN cache : n \in DOMAIN cache' /\ cache'[n] = cache[n]
\* a handle stored by the step is the handle of a machine listed under
\* exactly that name
StoredExactly ==
    \A n \in DOMAIN cache' \ DOMAIN cache :
        cache'[n] # NoneStr =>
            \E i \in DOMAIN registry :
                registry[i].name = n /\ registry[i].stateMachineArn = cache'[n]

\* C36: an entry of the cache is never overwritten, removed or changed, and a
\* handle is stored only as the handle of a listed machine of exactly the
\* suite's name.
C36_CacheWriteOnce == [][EntriesKept /\ StoredExactly]_vars
\* an entry with a handle is served again after the machine left the listing
C36_Witness ==
    /\ last_resolution.kind = "cached"
    /\ last_resolution.result # NoneStr
    /\ cache[last_resolution.name] = last_resolution.result
    /\ ~Listed(last_resolution.name)
    /\ \E i \in DOMAIN registry : registry[i].name # last_resolution.name

---------------------------------------------------------------------------
(* monitor_execution, run_tests.py 11-33.                                  *)

\* the service does not know the execution
Missing == "status" :> "<ExecutionDoesNotExist>"

InitMonitorExecution ==
    /\ pc = "describe"
    /\ ValidateIdle
    /\ status = NoneStr
    /\ remote \in {Running, Missing}
    /\ depth = 0
    /\ calls = 0
    /\ since_call = -1
    /\ last_gap = -1
    /\ last_call_retry = FALSE
    /\ poll_outcome = "none"
    /\ log = {}
    /\ analysis_enabled = FALSE
    /\ analysis_calls = 0
    /\ polls = 0
    /\ validations = 0
    /\ OtherIdle

\* lines 15-18, 29 and 31-33: describe_execution is called; a terminal status
\* other than FAILED is returned, FAILED goes on to the history, RUNNING goes on
\* to the sleep, an unknown execution returns FAILED, and any other exception
\* leaves the function
LegacyDescribe ==
    /\ pc = "describe"
    /\ polls' = IF polls < MaxPolls THEN polls + 1 ELSE polls
    /\ last_gap' = since_call
    /\ since_call' = 0
    /\ \E fate \in {"ok", "raise"} :
         IF fate = "raise"
         THEN /\ pc' = "raised"
              /\ poll_outcome' = "failed"
              /\ UNCHANGED <<status, log, returned_status>>
         ELSE IF remote = Missing
         THEN /\ pc' = "returned"
              /\ poll_outcome' = "missing"
              /\ log' = log \cup {"ExecutionNotFound"}
              /\ returned_status' = "FAILED"
              /\ UNCHANGED status
         ELSE /\ status' = remote["status"]
              /\ poll_outcome' = "answered"
              /\ pc' = IF remote["status"] = "FAILED" THEN "history"
                       ELSE IF remote["status"] \in {"SUCCEEDED", "TIMED_OUT", "ABORTED"}
                       THEN "returned" ELSE "sleep"
              /\ returned_status' =
                     IF remote["status"] \in {"SUCCEEDED", "TIMED_OUT", "ABORTED"}
                     THEN remote["status"] ELSE returned_status
              /\ UNCHANGED log
    /\ UNCHANGED <<validateVars, remote, depth, calls, last_call_retry,
                   analysis_enabled, analysis_calls, validations, resolveVars, runVars,
                   normVars, enumVars, total_tests, failed_tests, file_index, named>>

\* lines 18-29 and 31-33: the history of a FAILED execution is fetched and its
\* error printed before FAILED is returned
LegacyHistory ==
    /\ pc = "history"
    /\ \E fate \in {"ok", "missing", "raise"} :
         IF fate = "raise"
         THEN /\ pc' = "raised"
              /\ UNCHANGED <<log, returned_status, poll_outcome>>
         ELSE /\ pc' = "returned"
              /\ returned_status' = "FAILED"
              /\ log' = log \cup {IF fate = "ok" THEN "ErrorAndCause"
                                  ELSE "ExecutionNotFound"}
              /\ poll_outcome' = IF fate = "ok" THEN poll_outcome ELSE "missing"
    /\ UNCHANGED <<validateVars, status, remote, depth, calls, clockVars,
                   analysis_enabled, analysis_calls, polls, validations, resolveVars,
                   runVars, normVars, enumVars, total_tests, failed_tests, file_index,
                   named>>

LegacySleep_noSleep ==
    /\ pc = "sleep"
    /\ Elapse(0)
    /\ pc' = "describe"
    /\ UNCHANGED <<validateVars, status, remote, depth, calls, last_gap,
                   last_call_retry, poll_outcome, log, analysis_enabled,
                   analysis_calls, polls, validations, otherVars>>
\* line 30: time.sleep(3), then the loop calls describe_execution again
LegacySleep ==
    /\ pc = "sleep"
    /\ \E jitter \in 0..MaxJitter : Elapse(LEGACY_POLL_INTERVAL + jitter)
    /\ pc' = "describe"
    /\ UNCHANGED <<validateVars, status, remote, depth, calls, last_gap,
                   last_call_retry, poll_outcome, log, analysis_enabled,
                   analysis_calls, polls, validations, otherVars>>

NextMonitorExecution ==
    \/ RemoteTerminates
    \/ LegacyDescribe
    \/ LegacyHistory
    \/ LegacySleep

SpecMonitorExecution == InitMonitorExecution /\ [][NextMonitorExecution]_vars

\* C37: monitor_execution returns only SUCCEEDED, FAILED, TIMED_OUT or ABORTED,
\* never RUNNING, only after the service reported that status or reported that
\* the execution does not exist (returned as FAILED), and two consecutive
\* status queries are at least the polling interval of 3 apart.
C37_MonitorExecution ==
    /\ returned_status \in {NoneStr, "SUCCEEDED", "FAILED", "TIMED_OUT", "ABORTED"}
    /\ pc = "returned" <=> returned_status # NoneStr
    /\ pc = "returned" =>
           \/ /\ poll_outcome = "answered"
              /\ returned_status = status
              /\ remote["status"] = status
           \/ /\ poll_outcome = "missing"
              /\ returned_status = "FAILED"
    /\ last_gap # -1 => last_gap >= 3
C37_Witness ==
    /\ pc = "returned"
    /\ returned_status = "ABORTED"
    /\ polls >= 2
    /\ last_gap = 3

---------------------------------------------------------------------------
(* run of run_tests.py, lines 39-116.                                      *)

\* the case directories: missing, or with up to MaxFiles test files in sorted
\* order, each valid JSON or not
TestFileLists == UNION {[1..n -> {MalformedText, WithInput}] : n \in 0..MaxFiles}
TestCaseDirs == {NoCasesDir} \cup {CaseDir(TRUE, f) : f \in TestFileLists}
TestSuiteDirs == {SuiteDir(FALSE, NoCasesDir)} \cup {SuiteDir(TRUE, c) : c \in TestCaseDirs}
\* the suites in the order of suite_paths
TestSuiteLists == {<<>>, <<"orders">>, <<"orders", "billing">>}
TestSuiteTrees(l, by_name) ==
    {t \in [SuiteNames -> TestSuiteDirs] :
        /\ \A n \in SuiteNames :
             (\A k \in DOMAIN l : l[k] # n) => t[n] = SuiteDir(FALSE, NoCasesDir)
        /\ \A k \in DOMAIN l :
             /\ ~by_name => t[l[k]].is_dir
             /\ ~t[l[k]].is_dir => t[l[k]].cases = NoCasesDir}

InitTestRun ==
    /\ pc = "run"
    /\ ValidateIdle
    /\ MonitorIdle
    /\ ResolveIdle
    /\ NormIdle
    /\ EnumIdle
    /\ parallel = FALSE
    /\ wait = TRUE
    /\ root_exists = TRUE
    /\ named \in BOOLEAN
    /\ suites \in TestSuiteLists
    /\ suite_dirs \in TestSuiteTrees(suites, named)
    /\ suite_index = 0
    /\ skipped_suites = 0
    /\ test_jobs = <<>>
    /\ job_pc = <<>>
    /\ job_outcome = <<>>
    /\ results = [passed |-> 0, failed |-> 0]
    /\ start_calls = <<>>
    /\ exit_status = -1
    /\ run_end = "none"
    /\ returned_status = NoneStr
    /\ total_tests = 0
    /\ failed_tests = 0
    /\ file_index = 0

TestFiles(k) == suite_dirs[suites[k]].cases.files

\* lines 52-71: a named suite without its directory ends the command at once;
\* so does a root without suites; otherwise the counters are set up
TestRunEnter ==
    /\ pc = "run"
    /\ IF named /\ \E k \in DOMAIN suites : ~suite_dirs[suites[k]].is_dir
       THEN /\ log' = log \cup {RunMsg("SuiteDirNotFound", 0)}
            /\ pc' = "exited"
            /\ exit_status' = 0
            /\ run_end' = "returned"
       ELSE IF suites = <<>>
       THEN /\ log' = log \cup {RunMsg("NoSuites", 0)}
            /\ pc' = "exited"
            /\ exit_status' = 0
            /\ run_end' = "returned"
       ELSE /\ pc' = "suite"
            /\ UNCHANGED <<log, exitVars>>
    /\ UNCHANGED <<validateVars, monitorQuiet, resolveVars, normVars, enumVars,
                   flagVars, planVars, jobVars, legacyVars>>

\* lines 73-85: the next suite; without a case directory or without test files
\* it is warned about and left
TestRunSuite ==
    /\ pc = "suite"
    /\ suite_index < Len(suites)
    /\ suite_index' = suite_index + 1
    /\ file_index' = 0
    /\ LET cases == suite_dirs[suites[suite_index + 1]].cases
       IN  IF ~cases.is_dir
           THEN /\ log' = log \cup {RunMsg("NoCasesDir", suite_index + 1)}
                /\ UNCHANGED pc
           ELSE IF cases.files = <<>>
           THEN /\ log' = log \cup {RunMsg("NoTestFiles", suite_index + 1)}
                /\ UNCHANGED pc
           ELSE /\ pc' = "files"
                /\ UNCHANGED log
    /\ UNCHANGED <<validateVars, monitorQuiet, resolveVars, normVars, enumVars,
                   flagVars, root_exists, suite_dirs, suites, skipped_suites, jobVars,
                   exitVars, returned_status, total_tests, failed_tests, named>>

\* how the execution of a test file goes: monitor_execution returns one of its
\* four statuses, or start_execution or monitor_execution raises
TestFates == TerminalStatuses \cup {"start_raises", "monitor_raises"}

\* lines 87-107: one test file: it is counted, then rejected as invalid JSON
\* and counted as failed, or submitted and monitored, and counted as failed
\* unless the execution SUCCEEDED; an exception of start_execution or of
\* monitor_execution is not caught and ends the command
TestRunFile ==
    /\ pc = "files"
    /\ file_index < Len(TestFiles(suite_index))
    /\ file_index' = file_index + 1
    /\ total_tests' = total_tests + 1
    /\ LET file == TestFiles(suite_index)[file_index + 1]
           last == file_index + 1 = Len(TestFiles(suite_index))
       IN  IF ~json_loads(file).ok
           THEN /\ failed_tests' = failed_tests + 1
                /\ job_outcome' = Append(job_outcome, "invalid")
                /\ start_calls' = Append(start_calls, 0)
                /\ pc' = IF last THEN "suite" ELSE "files"
                /\ UNCHANGED <<returned_status, log, exitVars>>
           ELSE \E fate \in TestFates :
                /\ start_calls' = Append(start_calls, 1)
                /\ job_outcome' = Append(job_outcome, fate)
                /\ IF fate \in TerminalStatuses
                   THEN /\ returned_status' = fate
                        /\ failed_tests' = IF fate # "SUCCEEDED"
                                           THEN failed_tests + 1 ELSE failed_tests
                        /\ pc' = IF last THEN "suite" ELSE "files"
                        /\ UNCHANGED <<log, exitVars>>
                   ELSE /\ log' = log \cup {RunMsg("Traceback", Len(job_outcome) + 1)}
                        /\ pc' = "exited"
                        /\ exit_status' = 1
                        /\ run_end' = "uncaught"
                        /\ UNCHANGED <<returned_status, failed_tests>>
    /\ UNCHANGED <<validateVars, monitorQuiet, resolveVars, normVars, enumVars,
                   flagVars, planVars, test_jobs, job_pc, results, named>>

\* lines 109-116: the summary; exit(1) when a test failed
TestRunSummary ==
    /\ pc = "suite"
    /\ suite_index = Len(suites)
    /\ log' = log \cup {RunMsg("Summary", 0)}
    /\ pc' = "exited"
    /\ exit_status' = IF failed_tests > 0 THEN 1 ELSE 0
    /\ run_end' = IF failed_tests > 0 THEN "sys_exit" ELSE "returned"
    /\ UNCHANGED <<validateVars, monitorQuiet, resolveVars, normVars, enumVars,
                   flagVars, planVars, jobVars, legacyVars>>

NextTestRun ==
    \/ TestRunEnter
    \/ TestRunSuite
    \/ TestRunFile
    \/ TestRunSummary

SpecTestRun == InitTestRun /\ [][NextTestRun]_vars

\* the test files of the first k suites
RECURSIVE FilesUpTo(_)
FilesUpTo(k) == IF k = 0 THEN 0 ELSE FilesUpTo(k - 1) + Len(TestFiles(k))
\* the test files gone through that are invalid JSON or whose execution ended
\* with another status than SUCCEEDED
FailedFiles ==
    {i \in DOMAIN job_outcome : job_outcome[i] \in {"invalid", "FAILED", "TIMED_OUT", "ABORTED"}}
NamedSuiteMissing == named /\ \E k \in DOMAIN suites : ~suite_dirs[suites[k]].is_dir
TestCountersExact ==
    /\ total_tests = Len(job_outcome)
    /\ failed_tests = Cardinality(FailedFiles)
    /\ failed_tests <= total_tests
    /\ RunMsg("Summary", 0) \in log => total_tests = FilesUpTo(Len(suites))
TestExitStatus == pc = "exited" => (exit_status = 1 <=> FailedFiles # {})
NothingStartedWithoutSuite == NamedSuiteMissing => start_calls = <<>> /\ total_tests = 0

\* C38: total_tests counts every test file once and failed_tests counts a file
\* at most once, so failed_tests <= total_tests; the exit status is 1 exactly
\* when a test file was invalid JSON or its execution did not end SUCCEEDED;
\* with a named suite directory missing no execution is started.
C38_TestRunAggregation ==
    /\ TestCountersExact
    /\ TestExitStatus
    /\ NothingStartedWithoutSuite

=============================================================================
